---- MODULE Spec2Model ----
(***************************************************************************)
(* The tool-augmented generation loop of backend/ai_generator.py           *)
(* (AIGenerator.generate_response) as a state machine.  One step of the    *)
(* model is one blocking interaction of the handler with a collaborator:   *)
(* a completion call (client.messages.create), one iteration of the        *)
(* per-block tool loop (tool_manager.execute_tool), the end of a round,    *)
(* and the forced-synthesis call.  The text extraction that ends a run     *)
(* belongs to the step of the completion call it reads.                    *)
(*                                                                         *)
(* The completion service and the registry are the environment: every      *)
(* response shape and every tool outcome is chosen nondeterministically.   *)
(***************************************************************************)
EXTENDS Integers, Sequences, FiniteSets, TLC

\* ------------------------------------------------------------------ bounds
\* Longest content list the completion service returns in one response.
MaxBlocks == 2

\* ------------------------------------------------------- program constants
\* ai_generator.py:8
MAX_TOOL_ROUNDS == 2

None == "None"

\* ai_generator.py:166 and :175, the two literal answers of the extraction.
EmptyResponseError ==
    "Error: Received empty response from Claude API. Please try again."
NoTextError ==
    "Error: Received response with no text content from Claude API. Please try again."

\* ---------------------------------------------------------- the environment
\* Names the completion service may put in a tool_use block
\* (search_tools.py:33 and :166).
ToolNames == <<"search_course_content", "get_course_outline">>

\* Segment kinds of a response's content.  The handler tests a segment's type
\* twice, against "tool_use" (line 119) and against "text" (line 169): a
\* segment of any other type is skipped by the round loop as a text segment
\* is and by the extraction as a tool_use segment is.
BlockKinds == {"text", "tool_use"}

StopReasons == {"tool_use", "end_turn"}

\* The segment of kind k at position i of the response to completion call c.
\* The service gives every tool_use segment its own id and, so that segments
\* can be told apart, every text segment its own text.  The two tool names
\* alternate over the positions and the calls, so that one round may request
\* both tools and two rounds may start with different ones.
MkBlock(k, c, i) ==
    [type |-> k,
     id   |-> IF k = "tool_use" THEN "toolu_" \o ToString(c) \o "_" \o ToString(i)
              ELSE None,
     name |-> IF k = "tool_use" THEN ToolNames[((c + i) % 2) + 1] ELSE None,
     text |-> IF k = "text" THEN "text_" \o ToString(c) \o "_" \o ToString(i)
              ELSE None]

KindSeqs == UNION {[1..n -> BlockKinds] : n \in 0..MaxBlocks}

\* Every response the service may give to completion call c, for each call
\* number a run can reach (one more than the loop's rounds, and the forced
\* synthesis).
ResponseTable ==
    [c \in 1..(MAX_TOOL_ROUNDS + 2) |->
        {[stop_reason |-> s,
          content     |-> [i \in 1..Len(ks) |-> MkBlock(ks[i], c, i)]] :
            s \in StopReasons, ks \in KindSeqs}]

Responses(c) == ResponseTable[c]

\* Transport-level failures of client.messages.create
\* (test_04_ai_generator.py:311-345).
TransportErrors == {"AuthenticationError", "APITimeoutError"}

\* Python values a tool may return: a str, or a dict (one key/value pair).
PyStr(s) == [tag |-> "str", str |-> s, key |-> None]
PyDict(k, v) == [tag |-> "dict", str |-> v, key |-> k]

\* What tool_manager.execute_tool may do with one invocation: return a string,
\* return a value that is not a string (test_04_ai_generator.py:293), or
\* raise (test_04_ai_generator.py:463).
ToolOutcomes ==
    {[kind |-> "return", val |-> PyStr("mock tool result"), exc |-> None, msg |-> None],
     [kind |-> "return", val |-> PyDict("error", "not a string"), exc |-> None, msg |-> None],
     [kind |-> "raise", val |-> PyStr(""), exc |-> "Exception", msg |-> "Tool failed"]}

Queries == {"What is in the test course?"}

\* ai_generator.py:53, self.base_params as __init__ builds it
\* (the model name of test_07_error_injection.py:123).
BaseParams ==
    [model |-> "claude-sonnet-4-20250514", temperature |-> 0, max_tokens |-> 800]

\* The query of the n-th run a caller makes on one AIGenerator.
QueryOf(n) == "query " \o ToString(n)

NoResponse == [stop_reason |-> None, content |-> <<>>]

\* ---------------------------------------------- search_tools.py: the data
\* Bound on the number of documents of one result set of the store.
MaxDocs == 2

\* Bound on the number of runs of generate_response against one registry.
MaxRuns == 2

\* A lesson_number that is None (`meta.get('lesson_number')` finds no lesson,
\* or the optional argument of execute is left out).
NoLesson == -1

\* The (course_title, lesson_number) metadata the store attaches to a
\* document: a lesson of a course, and a course-level document.
Metas ==
    {[course_title |-> "MCP", lesson_number |-> 0],
     [course_title |-> "Intro", lesson_number |-> NoLesson]}

\* store.get_lesson_link and store.get_course_link as they answer on the
\* catalog of this model: one lesson with a link, one course with a link.
get_lesson_link(course_title, lesson_num) ==
    IF course_title = "MCP" /\ lesson_num = 0
      THEN "https://example.com/mcp/lesson0"
    ELSE None

get_course_link(course_title) ==
    IF course_title = "MCP" THEN "https://example.com/mcp" ELSE None

\* A SearchResults value: documents, their metadata, and the error field.
Results(docs, metas, error) ==
    [documents |-> docs, metadata |-> metas, error |-> error]

EmptyResults == Results(<<>>, <<>>, None)

ErrorResults == Results(<<>>, <<>>, "No course found matching 'zzz'")

\* The result sets with documents whose metadata are drawn from metas.
ResultSetsOver(metas) ==
    UNION {{Results([i \in 1..n |-> "chunk " \o ToString(i)], m, None) :
               m \in [1..n -> metas]} : n \in 1..MaxDocs}

ResultSets == ResultSetsOver(Metas)

\* What the store does during one CourseSearchTool.execute, with the result
\* sets rs: store.search raises, or it returns a result set that carries an
\* error, is empty, or holds documents; and when there are documents, the
\* link lookups that follow answer or raise.
SearchOutcomesOver(rs) ==
    {[kind |-> "raise", exc |-> "Exception", msg |-> "ChromaDB query failed",
      results |-> EmptyResults]}
    \cup {[kind |-> "return", exc |-> None, msg |-> None, results |-> r] :
             r \in {ErrorResults, EmptyResults} \cup rs}
    \cup {[kind |-> "links_raise", exc |-> "Exception", msg |-> "catalog unavailable",
           results |-> r] : r \in rs}

SearchOutcomes == SearchOutcomesOver(ResultSets)

\* The metadata of the documents of a course catalog that has every kind of
\* entry: lesson 0 of MCP has a link of its own, lesson 1 of MCP has none
\* but its course has one, lesson 1 of Intro has none and neither has its
\* course, and each course has documents that belong to no lesson.
AllMetas ==
    Metas \cup {[course_title |-> "MCP", lesson_number |-> 1],
                [course_title |-> "MCP", lesson_number |-> NoLesson],
                [course_title |-> "Intro", lesson_number |-> 1]}

AllSearchOutcomes == SearchOutcomesOver(ResultSetsOver(AllMetas))

\* The optional filters a caller of CourseSearchTool.execute may pass.
CourseNameArgs == {None, "MCP"}
LessonNumberArgs == {NoLesson, 0, 1}

\* The course metadata of the catalog: one course with a link and a lesson,
\* one without a link.
CatalogEntries ==
    {[title |-> "MCP", course_link |-> "https://example.com/mcp",
      instructor |-> "Ada",
      lessons |-> <<[lesson_number |-> 0, lesson_title |-> "Basics"]>>],
     [title |-> "Intro", course_link |-> None, instructor |-> "Bob",
      lessons |-> <<>>]}

NoEntry == [title |-> None, course_link |-> None, instructor |-> None, lessons |-> <<>>]

\* What the store does during one CourseOutlineTool.execute: the name
\* resolution raises or finds nothing, the catalog read finds nothing or
\* raises (as does json.loads on a malformed lesson list), or the metadata of
\* the course comes back.
OutlineOutcomes ==
    {[kind |-> k, msg |-> None, metadata |-> NoEntry] : k \in {"unresolved", "missing"}}
    \cup {[kind |-> k, msg |-> "catalog unavailable", metadata |-> NoEntry] :
             k \in {"resolve_raises", "lookup_raises"}}
    \cup {[kind |-> "found", msg |-> None, metadata |-> m] : m \in CatalogEntries}

\* The course_name argument of CourseOutlineTool.execute.
OutlineNameArgs == {"MCP", "Intro"}

\* The tool objects that exist: two CourseSearchTool instances, one
\* CourseOutlineTool, and a Tool whose definition has no "name".
Instances == {"search1", "search2", "outline1", "unnamed"}

\* The tool objects that have a last_sources attribute.
SourceTools == {"search1", "search2", "outline1"}

\* tool.get_tool_definition().get("name")
DefinitionName(inst) ==
    IF inst \in {"search1", "search2"} THEN ToolNames[1]
    ELSE IF inst = "outline1" THEN ToolNames[2]
    ELSE None

\* The names execute_tool is called with: the registered ones and a stray.
RequestedNames == {ToolNames[1], ToolNames[2], "unknown_tool"}

\* No registry operation has been made yet.
NoOp ==
    [op |-> "none", name |-> None, inst |-> None, prev |-> None, path |-> None,
     ret |-> None, exc |-> None, sources |-> <<>>]

\* ------------------------------------------ search_tools.py: the functions
\* Python truthiness of an optional string, and of an optional lesson number.
Truthy(x) == x \notin {None, ""}

TruthyLesson(n) == n \notin {NoLesson, 0}

\* sep.join(parts)
RECURSIVE Join(_, _)
Join(parts, sep) ==
    IF Len(parts) = 0 THEN ""
    ELSE IF Len(parts) = 1 THEN parts[1]
    ELSE parts[1] \o sep \o Join(Tail(parts), sep)

\* search_tools.py:128-131, the context header of one document.
Header(meta) ==
    "[" \o meta.course_title
        \o (IF meta.lesson_number # NoLesson
              THEN " - Lesson " \o ToString(meta.lesson_number)
            ELSE "")
        \o "]"

\* search_tools.py:134-136, the text of one citation.
SourceText(meta) ==
    meta.course_title
        \o (IF meta.lesson_number # NoLesson
              THEN " - Lesson " \o ToString(meta.lesson_number)
            ELSE "")

\* Mutant of LinkOf: lesson 0 is taken for no lesson.
LinkOf_ZeroIsNoLesson(meta) ==
    IF meta.lesson_number \notin {NoLesson, 0}
      THEN IF Truthy(get_lesson_link(meta.course_title, meta.lesson_number))
             THEN get_lesson_link(meta.course_title, meta.lesson_number)
           ELSE get_course_link(meta.course_title)
    ELSE get_course_link(meta.course_title)

\* search_tools.py:110-120, the link looked up for one (course, lesson) key:
\* the lesson link when there is a lesson and it has one, else the course link.
LinkOf(meta) ==
    IF meta.lesson_number # NoLesson
      THEN IF Truthy(get_lesson_link(meta.course_title, meta.lesson_number))
             THEN get_lesson_link(meta.course_title, meta.lesson_number)
           ELSE get_course_link(meta.course_title)
    ELSE get_course_link(meta.course_title)

\* Mutant of unique_sources: every document brings its own key.
unique_sources_PerDocument(metadata) == metadata

\* search_tools.py:101-107, the keys of the dict unique_sources in insertion
\* order: the (course_title, lesson_number) pairs of the metadata, each once,
\* in the order of first appearance.
RECURSIVE unique_sources(_)
unique_sources(metadata) ==
    IF Len(metadata) = 0 THEN <<>>
    ELSE LET front == unique_sources(SubSeq(metadata, 1, Len(metadata) - 1))
             key   == metadata[Len(metadata)]
         IN  IF \E i \in DOMAIN front : front[i] = key THEN front
             ELSE Append(front, key)

\* One call of a link lookup of the store: the function called, the key of
\* unique_sources it is made for, and its answer.
Lookup(fn, key, url) ==
    [fn |-> fn, course_title |-> key.course_title,
     lesson_number |-> key.lesson_number, url |-> url]

\* search_tools.py:110-120, the store lookups made for the keys: for a key
\* with a lesson number the lesson link and, when there is none, the course
\* link; for a key without a lesson number the course link.
RECURSIVE LinkLookups(_)
LinkLookups(keys) ==
    IF Len(keys) = 0 THEN <<>>
    ELSE LET key == Head(keys)
             lesson == Lookup("get_lesson_link", key,
                              get_lesson_link(key.course_title, key.lesson_number))
             course == Lookup("get_course_link", key, get_course_link(key.course_title))
         IN  (IF key.lesson_number # NoLesson
                THEN IF Truthy(lesson.url) THEN <<lesson>> ELSE <<lesson, course>>
              ELSE <<course>>)
             \o LinkLookups(Tail(keys))

\* search_tools.py:93-120, the link lookups one CourseSearchTool.execute call
\* makes when the store answers with outcome o: none unless the result set
\* is formatted; when a lookup raises, it is the first one and the last.
StoreLookups(o) ==
    IF o.kind = "raise" \/ Truthy(o.results.error) \/ Len(o.results.documents) = 0
      THEN <<>>
    ELSE IF o.kind = "links_raise"
      THEN SubSeq(LinkLookups(unique_sources(o.results.metadata)), 1, 1)
    ELSE LinkLookups(unique_sources(o.results.metadata))

\* search_tools.py:123-146, the citations of a result set: the loop over the
\* documents appends one citation for each document.
FormatSources(results) ==
    [i \in 1..Len(results.metadata) |->
        [text |-> SourceText(results.metadata[i]), url |-> LinkOf(results.metadata[i])]]

\* search_tools.py:148-153, the text of a result set.
FormatText(results) ==
    Join([i \in 1..Len(results.documents) |->
             Header(results.metadata[i]) \o "\n" \o results.documents[i]],
         "\n\n")

\* search_tools.py:84-90, the answer to an empty result set.
NoContentMessage(course_name, lesson_number) ==
    "No relevant content found"
        \o (IF Truthy(course_name) THEN " in course '" \o course_name \o "'" ELSE "")
        \o (IF TruthyLesson(lesson_number)
              THEN " in lesson " \o ToString(lesson_number)
            ELSE "")
        \o "."

\* What one execute call of a tool does: the path it takes, the string it
\* returns or the exception that leaves it, and the assignment it makes to
\* self.last_sources, if it makes one.
Executed(path, ret, exc) ==
    [path |-> path, ret |-> ret, exc |-> exc, assigns |-> FALSE, last_sources |-> <<>>]

ExecutedAssigning(path, ret, sources) ==
    [path |-> path, ret |-> ret, exc |-> None, assigns |-> TRUE, last_sources |-> sources]

\* SearchResults.is_empty(), of vector_store.py.
is_empty(results) == Len(results.documents) = 0 /\ ~Truthy(results.error)

\* search_tools.py:55-93 and 95-153, CourseSearchTool.execute when the store
\* answers with outcome o.  The link lookups of lines 110-120 stand outside
\* the try block of line 69: an exception of theirs leaves execute, before
\* line 151 is reached.
CourseSearchTool_execute(course_name, lesson_number, o) ==
    IF o.kind = "raise"
      THEN Executed("exception", "Search error: " \o o.exc \o ": " \o o.msg, None)
    ELSE IF Truthy(o.results.error)
      THEN Executed("error", o.results.error, None)
    ELSE IF is_empty(o.results)
      THEN Executed("empty", NoContentMessage(course_name, lesson_number), None)
    ELSE IF o.kind = "links_raise"
      THEN Executed("links_raise", None, o.exc)
    ELSE ExecutedAssigning("results", FormatText(o.results), FormatSources(o.results))

\* search_tools.py:216-231, the rendered outline of a course.
OutlineText(m) ==
    Join(<<"Course: " \o m.title, "Instructor: " \o m.instructor>>
            \o (IF Truthy(m.course_link)
                  THEN <<"Course Link: " \o m.course_link>>
                ELSE <<>>)
            \o <<"\nLessons (" \o ToString(Len(m.lessons)) \o " total):">>
            \o [i \in 1..Len(m.lessons) |->
                   "  Lesson " \o ToString(m.lessons[i].lesson_number) \o ": "
                       \o m.lessons[i].lesson_title],
         "\n")

\* Mutant of OutlineSources: a citation is stored also without a link.
OutlineSources_Always(m) == <<[text |-> m.title, url |-> m.course_link]>>

\* search_tools.py:234-240, the citation of a course outline.
OutlineSources(m) ==
    IF Truthy(m.course_link)
      THEN <<[text |-> m.title, url |-> m.course_link]>>
    ELSE <<>>

\* search_tools.py:180-245, CourseOutlineTool.execute when the store answers
\* with outcome o.  The name resolution of line 193 stands outside the try
\* block.
CourseOutlineTool_execute(course_name, o) ==
    IF o.kind = "resolve_raises"
      THEN Executed("resolve_raises", None, "Exception")
    ELSE IF o.kind = "unresolved"
      THEN Executed("unresolved", "No course found matching '" \o course_name \o "'",
                    None)
    ELSE IF o.kind = "missing"
      THEN Executed("missing", "Course '" \o course_name \o "' not found in catalog",
                    None)
    ELSE IF o.kind = "lookup_raises"
      THEN Executed("lookup_raises", "Error retrieving course outline: " \o o.msg, None)
    ELSE ExecutedAssigning("found", OutlineText(o.metadata), OutlineSources(o.metadata))

\* Every way one CourseSearchTool.execute call can go, over the filters it
\* may be given and the answers of the store.
SearchExecutions ==
    {CourseSearchTool_execute(c, n, o) :
        c \in CourseNameArgs, n \in LessonNumberArgs, o \in SearchOutcomes}

\* Every way one CourseOutlineTool.execute call can go.
OutlineExecutions ==
    {CourseOutlineTool_execute(c, o) : c \in OutlineNameArgs, o \in OutlineOutcomes}

\* `tool_name in self.tools`, for the registry reg: the sequence of the
\* (name, tool) entries of self.tools in insertion order.
Registered(reg, tool_name) == \E i \in DOMAIN reg : reg[i].name = tool_name

\* self.tools[tool_name]
ToolOf(reg, tool_name) ==
    reg[CHOOSE i \in DOMAIN reg : reg[i].name = tool_name].inst

\* search_tools.py:260, self.tools[tool_name] = tool: a new key goes to the
\* end of the dict, an existing key keeps its place and takes the new value.
Put(reg, tool_name, inst) ==
    IF Registered(reg, tool_name)
      THEN [i \in DOMAIN reg |->
              IF reg[i].name = tool_name THEN [name |-> tool_name, inst |-> inst]
              ELSE reg[i]]
    ELSE Append(reg, [name |-> tool_name, inst |-> inst])

\* Mutant of NotFound: the name is left out of the message.
NotFound_NoName(tool_name) == "Tool not found"

\* search_tools.py:270
NotFound(tool_name) == "Tool '" \o tool_name \o "' not found"

\* search_tools.py:277-280, the scan of get_last_sources from position i of
\* the registry: the position of the first tool whose last_sources is not
\* empty, 0 when there is none.
RECURSIVE FirstWithSources(_, _, _)
FirstWithSources(reg, ls, i) ==
    IF i > Len(reg) THEN 0
    ELSE IF ls[reg[i].inst] # <<>> THEN i
    ELSE FirstWithSources(reg, ls, i + 1)

\* Mutant of Cleared: only the first registered tool is reset.
Cleared_FirstOnly(reg, ls) ==
    [t \in DOMAIN ls |->
        IF Len(reg) > 0 /\ reg[1].inst = t THEN <<>> ELSE ls[t]]

\* Mutant of Cleared: only the CourseSearchTool objects are reset.
Cleared_SearchOnly(reg, ls) ==
    [t \in DOMAIN ls |->
        IF t # "outline1" /\ (\E i \in DOMAIN reg : reg[i].inst = t) THEN <<>>
        ELSE ls[t]]

\* Mutant of Cleared: the tool registered last is not reset.
Cleared_AllButLast(reg, ls) ==
    [t \in DOMAIN ls |->
        IF \E i \in 1..(Len(reg) - 1) : reg[i].inst = t THEN <<>> ELSE ls[t]]

\* Mutant of Cleared: reset_sources does nothing.
Cleared_Nothing(reg, ls) == ls

\* search_tools.py:284-286, the last_sources of every tool after
\* reset_sources: empty for each registered tool.
Cleared(reg, ls) ==
    [t \in DOMAIN ls |->
        IF \E i \in DOMAIN reg : reg[i].inst = t THEN <<>> ELSE ls[t]]

\* ------------------------------------------------------------------- state
VARIABLES
    base_params,        \* self.base_params of the AIGenerator object
    pc,                 \* position of the handler
    tools,              \* the caller passes a truthy `tools` argument
    tool_manager,       \* the caller passes a truthy `tool_manager` argument
    messages,           \* api_params["messages"]
    tool_rounds_used,   \* local of the same name
    response,           \* local of the same name
    blk,                \* index of the content block the for-loop is at
    tool_results,       \* local of the same name
    any_tool_succeeded, \* local of the same name
    result,             \* the returned string, None before the return
    raised,             \* the exception that left the handler, else None
    calls,              \* every client.messages.create call, in order
    execs               \* every tool_manager.execute_tool call, in order

\* The registry, the tools it was given, and what was done with them.
VARIABLES
    registered,         \* ToolManager.tools: its (name, tool) entries in order
    last_sources,       \* the last_sources attribute of each tool
    last,               \* the latest registry operation and what it gave back
    runs,               \* number of generate_response runs started so far
    src_run,            \* for each tool, the run its last_sources was set in
    reset_run,          \* the run during which reset_sources was last called
    latest              \* the latest execution that recorded citations

ovars == <<base_params, pc, tools, tool_manager, messages, tool_rounds_used, response, blk,
           tool_results, any_tool_succeeded, result, raised, calls, execs>>

rvars == <<registered, last_sources, last, runs, src_run, reset_run, latest>>

\* The callers that use the tools and the registry directly.
VARIABLES
    call,               \* the latest direct call of a tool's execute method
    reqs,               \* the requests a caller serves through the registry
    earlier             \* what the run before left, as its caller saw it

cvars == <<call, reqs, earlier>>

vars == <<ovars, rvars, cvars>>

\* No store outcome: the tool was not called.
NoSearch == [kind |-> "none", exc |-> None, msg |-> None, results |-> EmptyResults]

NoOutline == [kind |-> "none", msg |-> None, metadata |-> NoEntry]

\* No direct call of a tool has been made yet.
NoCall ==
    [nth |-> "none", tool |-> None, course_name |-> None, lesson_number |-> NoLesson,
     search |-> NoSearch, outline |-> NoOutline, lookups |-> <<>>]

\* The requests served through one registry.  Request r is the r-th run of
\* generate_response: the citations its tool executions record carry r.
Requests == 1..MaxRuns

\* A request that has not started: it has read nothing, and nothing of its
\* own was taken from it.
NoRequest == [pc |-> "idle", got |-> 0, lost |-> FALSE, overlapped |-> FALSE]

\* What a caller keeps of a run of generate_response that is over: how many
\* rounds and how many messages it came to.
Left(rounds, msgs) == [tool_rounds_used |-> rounds, messages |-> Len(msgs)]

\* No run came before.
NoRunBefore == Left(0, <<>>)

\* No caller has touched the tools.
CallersInit ==
    /\ call = NoCall
    /\ reqs = [r \in Requests |-> NoRequest]
    /\ earlier = NoRunBefore

\* Nobody has recorded citations.
NoLatest == [inst |-> None, sources |-> <<>>]

\* search_tools.py:26-28 and 159-161: the tools as constructed, held by a
\* registry whose entries are reg.
Constructed(reg) ==
    /\ registered = reg
    /\ last_sources = [t \in SourceTools |-> <<>>]
    /\ last = NoOp
    /\ runs = 0
    /\ src_run = [t \in SourceTools |-> 0]
    /\ reset_run = 0
    /\ latest = NoLatest

\* search_tools.py:251-252: the registry as constructed, nothing registered.
ToolManagerInit == Constructed(<<>>)

\* State after AIGenerator.__init__: no run has started.  The caller either
\* passes a tool catalog or not, and a registry or not, on each of its runs.
Idle ==
    /\ base_params = BaseParams
    /\ pc = "idle"
    /\ tools \in BOOLEAN
    /\ tool_manager \in BOOLEAN
    /\ messages = <<>>
    /\ tool_rounds_used = 0
    /\ response = NoResponse
    /\ blk = 0
    /\ tool_results = <<>>
    /\ any_tool_succeeded = FALSE
    /\ result = None
    /\ raised = None
    /\ calls = <<>>
    /\ execs = <<>>

\* The handler and the registry after construction.
Init ==
    /\ Idle
    /\ ToolManagerInit
    /\ CallersInit

\* ------------------------------------------------------- pure computations
\* isinstance(v, str)
IsStr(v) == v.tag = "str"

\* str(v)
Str(v) ==
    IF v.tag = "str" THEN v.str
    ELSE "{'" \o v.key \o "': '" \o v.str \o "'}"

\* Mutant of ToolErrorContent: the exception's kind is left out.
ToolErrorContent_NoKind(name, exc, msg) ==
    "Error executing tool '" \o name \o "': " \o msg

\* ai_generator.py:132, the result string of an invocation that raised.
ToolErrorContent(name, exc, msg) ==
    "Error executing tool '" \o name \o "': " \o exc \o ": " \o msg

\* Mutant of RunTool: no try/except, a tool's exception leaves the handler.
RunTool_NoCatch(block, o) ==
    IF o.kind = "raise"
      THEN [content |-> PyStr(""), succeeded |-> FALSE, propagates |-> o.exc]
      ELSE [content    |-> IF IsStr(o.val) THEN o.val ELSE PyStr(Str(o.val)),
            succeeded  |-> TRUE,
            propagates |-> None]

\* Mutant of RunTool: a result that is not a string is rejected with a
\* TypeError raised outside the try.
RunTool_TypeError(block, o) ==
    IF o.kind = "raise"
      THEN [content    |-> PyStr(ToolErrorContent(block.name, o.exc, o.msg)),
            succeeded  |-> FALSE,
            propagates |-> None]
      ELSE [content    |-> o.val,
            succeeded  |-> TRUE,
            propagates |-> IF IsStr(o.val) THEN None ELSE "TypeError"]

\* Mutant of RunTool: the result is embedded as returned, without str().
RunTool_NoCoerce(block, o) ==
    IF o.kind = "raise"
      THEN [content    |-> PyStr(ToolErrorContent(block.name, o.exc, o.msg)),
            succeeded  |-> FALSE,
            propagates |-> None]
      ELSE [content |-> o.val, succeeded |-> TRUE, propagates |-> None]

\* ai_generator.py:120-132, the try/except around one execute_tool call:
\* the value placed in the tool result and whether the invocation succeeded.
\* `propagates` is the exception that leaves the handler, None when caught.
RunTool(block, o) ==
    IF o.kind = "raise"
      THEN [content    |-> PyStr(ToolErrorContent(block.name, o.exc, o.msg)),
            succeeded  |-> FALSE,
            propagates |-> None]
      ELSE [content    |-> IF IsStr(o.val) THEN o.val ELSE PyStr(Str(o.val)),
            succeeded  |-> TRUE,
            propagates |-> None]

\* Mutant of ToolResult: the invocation's id is not echoed.
ToolResult_NoId(block, content) ==
    [type |-> "tool_result", tool_use_id |-> None, content |-> content]

\* ai_generator.py:134-140
ToolResult(block, content) ==
    [type |-> "tool_result", tool_use_id |-> block.id, content |-> content]

\* Mutant of LoopParams: the catalog is attached without a tool choice.
LoopParams_NoChoice(t) == [tools |-> t, tool_choice |-> FALSE]

\* Mutant of LoopParams: the catalog is not attached.
LoopParams_NoCatalog(t) == [tools |-> FALSE, tool_choice |-> FALSE]

\* ai_generator.py:90-99, the parameters of every call made inside the loop.
LoopParams(t) == [tools |-> t, tool_choice |-> t]

\* Mutant of FinalParams: the catalog stays attached.
FinalParams_KeepsTools(t) == [tools |-> t, tool_choice |-> t]

\* ai_generator.py:156-160, the parameters of the forced-synthesis call.
FinalParams(t) == [tools |-> FALSE, tool_choice |-> FALSE]

\* Mutant of LoopExits: the stop reason is not looked at.
LoopExits_IgnoresStopReason(r, tm) == ~tm

\* Mutant of LoopExits: a response that requests tool use without a tool_use
\* block leaves the loop as a response that requests none does.
LoopExits_NoInvocations(r, tm) ==
    \/ r.stop_reason # "tool_use"
    \/ ~tm
    \/ \A i \in DOMAIN r.content : r.content[i].type # "tool_use"

\* Mutant of LoopExits: a missing registry is not looked at.
LoopExits_IgnoresRegistry(r, tm) == r.stop_reason # "tool_use"

\* ai_generator.py:107
LoopExits(r, tm) == r.stop_reason # "tool_use" \/ ~tm

\* Mutant of RoundTerminates: a round whose tools all failed does not end the
\* loop.
RoundTerminates_IgnoresFailure(rounds, any) == rounds >= MAX_TOOL_ROUNDS

\* Mutant of RoundTerminates: every round ends the loop.
RoundTerminates_Always(rounds, any) == TRUE

\* Mutant of RoundTerminates: the round cap is off by one.
RoundTerminates_OffByOne(rounds, any) == rounds > MAX_TOOL_ROUNDS \/ ~any

\* ai_generator.py:146
RoundTerminates(rounds, any) == rounds >= MAX_TOOL_ROUNDS \/ ~any

\* Mutant of NeedsSynthesis: the post-loop test always asks for a synthesis.
NeedsSynthesis_Always(r) == TRUE

\* Mutant of NeedsSynthesis: the post-loop test never asks for a synthesis.
NeedsSynthesis_Never(r) == FALSE

\* ai_generator.py:151
NeedsSynthesis(r) == r.stop_reason = "tool_use"

\* Mutant of NextToolUse: the for-loop stops after the first tool_use block.
NextToolUse_OnlyFirst(c, i) ==
    IF i = 1 /\ \E j \in DOMAIN c : c[j].type = "tool_use"
      THEN CHOOSE j \in DOMAIN c :
              /\ c[j].type = "tool_use"
              /\ \A l \in 1..(j - 1) : c[l].type # "tool_use"
    ELSE Len(c) + 1

\* Index of the first tool_use block of content c at or after position i,
\* Len(c) + 1 when there is none (the for/if of ai_generator.py:118-119).
RECURSIVE NextToolUse(_, _)
NextToolUse(c, i) ==
    IF i > Len(c) THEN Len(c) + 1
    ELSE IF c[i].type = "tool_use" THEN i
    ELSE NextToolUse(c, i + 1)

\* Mutant of FirstText: the last text block is taken instead of the first.
RECURSIVE FirstText_Last(_, _)
FirstText_Last(c, i) ==
    IF i > Len(c) THEN 0
    ELSE IF FirstText_Last(c, i + 1) # 0 THEN FirstText_Last(c, i + 1)
    ELSE IF c[i].type = "text" THEN i
    ELSE 0

\* Index of the first text block of content c at or after position i, 0 when
\* there is none (the for/if of ai_generator.py:168-170).
RECURSIVE FirstText(_, _)
FirstText(c, i) ==
    IF i > Len(c) THEN 0
    ELSE IF c[i].type = "text" THEN i
    ELSE FirstText(c, i + 1)

\* Mutant of ExtractText: the emptiness test of line 164 is missing.
ExtractText_NoEmptyCheck(r) ==
    IF FirstText(r.content, 1) # 0
      THEN r.content[FirstText(r.content, 1)].text
    ELSE NoTextError

\* ai_generator.py:163-175
ExtractText(r) ==
    IF Len(r.content) = 0 THEN EmptyResponseError
    ELSE IF FirstText(r.content, 1) # 0
           THEN r.content[FirstText(r.content, 1)].text
    ELSE NoTextError

\* One entry of the log of completion calls: the request as the service saw
\* it and what the service answered.
Call(site, params, msgs, r, e) ==
    [site |-> site, tools |-> params.tools, tool_choice |-> params.tool_choice,
     messages |-> msgs, response |-> r, error |-> e]

\* ----------------------------------------------------------------- actions
\* ai_generator.py:55-101, entry of generate_response: a new run starts.
GenerateResponse ==
    /\ pc \in {"idle", "done", "raised"}
    /\ \E q \in Queries :
          messages' = <<[role |-> "user", content |-> q]>>
    /\ UNCHANGED <<base_params, tools, tool_manager>>
    /\ tool_rounds_used' = 0
    /\ response' = NoResponse
    /\ blk' = 0
    /\ tool_results' = <<>>
    /\ any_tool_succeeded' = FALSE
    /\ result' = None
    /\ raised' = None
    /\ calls' = <<>>
    /\ execs' = <<>>
    /\ pc' = "call"
    /\ UNCHANGED rvars
    /\ UNCHANGED cvars

\* ai_generator.py:104-117 and 149-175, a completion call of the loop that
\* returns: the exit test, then either the start of a round, or the exit from
\* the loop, which ends at the forced-synthesis call or returns the answer.
Create ==
    /\ pc = "call"
    /\ \E r \in Responses(Len(calls) + 1) :
          /\ response' = r
          /\ calls' = Append(calls, Call("loop", LoopParams(tools), messages, r, None))
          /\ IF LoopExits(r, tool_manager)
               THEN /\ IF NeedsSynthesis(r)
                         THEN pc' = "post" /\ result' = result
                         ELSE pc' = "done" /\ result' = ExtractText(r)
                    /\ UNCHANGED <<messages, tool_rounds_used, blk, tool_results,
                                   any_tool_succeeded>>
               ELSE /\ result' = result /\ pc' = "exec"
                    /\ tool_rounds_used' = tool_rounds_used + 1
                    /\ messages' = Append(messages,
                                          [role |-> "assistant", content |-> r.content])
                    /\ tool_results' = <<>>
                    /\ any_tool_succeeded' = FALSE
                    /\ blk' = NextToolUse(r.content, 1)
    /\ UNCHANGED <<base_params, tools, tool_manager, raised, execs>>
    /\ UNCHANGED rvars
    /\ UNCHANGED cvars

\* Mutant of CreateRaises: the failure is swallowed and the call is retried.
CreateRaises_Retry ==
    /\ pc = "call"
    /\ \E e \in TransportErrors :
          calls' = Append(calls, Call("loop", LoopParams(tools), messages, NoResponse, e))
    /\ UNCHANGED <<base_params, pc, tools, tool_manager, messages, tool_rounds_used, response, blk,
                   tool_results, any_tool_succeeded, result, raised, execs>>
    /\ UNCHANGED rvars
    /\ UNCHANGED cvars

\* ai_generator.py:104, a completion call of the loop that raises: nothing
\* catches it, the exception leaves generate_response.
CreateRaises ==
    /\ pc = "call"
    /\ \E e \in TransportErrors :
          /\ calls' = Append(calls, Call("loop", LoopParams(tools), messages, NoResponse, e))
          /\ raised' = e
    /\ pc' = "raised"
    /\ UNCHANGED <<base_params, tools, tool_manager, messages, tool_rounds_used, response, blk,
                   tool_results, any_tool_succeeded, result, execs>>
    /\ UNCHANGED rvars
    /\ UNCHANGED cvars

\* ai_generator.py:118-140, one iteration of the for-loop on a tool_use block.
ExecuteTool ==
    /\ pc = "exec"
    /\ blk <= Len(response.content)
    /\ \E o \in ToolOutcomes :
          LET block == response.content[blk]
              run   == RunTool(block, o)
          IN  /\ execs' = Append(execs, [round |-> tool_rounds_used, id |-> block.id,
                                         name |-> block.name, outcome |-> o])
              /\ IF run.propagates # None
                   THEN /\ pc' = "raised"
                        /\ raised' = run.propagates
                        /\ UNCHANGED <<tool_results, any_tool_succeeded, blk>>
                   ELSE /\ tool_results' = Append(tool_results,
                                                  ToolResult(block, run.content))
                        /\ any_tool_succeeded' = (any_tool_succeeded \/ run.succeeded)
                        /\ blk' = NextToolUse(response.content, blk + 1)
                        /\ UNCHANGED <<pc, raised>>
    /\ UNCHANGED <<base_params, tools, tool_manager, messages, tool_rounds_used, response, result,
                   calls>>
    /\ UNCHANGED rvars
    /\ UNCHANGED cvars

\* Mutant of EndRound: the results message takes the place of the assistant
\* message of the round instead of being appended after it.
EndRound_Overwrites ==
    /\ pc = "exec"
    /\ blk > Len(response.content)
    /\ messages' = [messages EXCEPT
                       ![Len(messages)] = [role |-> "user", content |-> tool_results]]
    /\ IF RoundTerminates(tool_rounds_used, any_tool_succeeded)
         THEN IF NeedsSynthesis(response)
                THEN pc' = "post" /\ result' = result
                ELSE pc' = "done" /\ result' = ExtractText(response)
         ELSE pc' = "call" /\ result' = result
    /\ UNCHANGED <<base_params, tools, tool_manager, tool_rounds_used, response, blk, tool_results,
                   any_tool_succeeded, raised, calls, execs>>
    /\ UNCHANGED rvars
    /\ UNCHANGED cvars

\* ai_generator.py:142-151, the end of a round: the results message and the
\* decision to re-query or to leave the loop (then the test of line 151).
EndRound ==
    /\ pc = "exec"
    /\ blk > Len(response.content)
    /\ messages' = Append(messages, [role |-> "user", content |-> tool_results])
    /\ IF RoundTerminates(tool_rounds_used, any_tool_succeeded)
         THEN IF NeedsSynthesis(response)
                THEN pc' = "post" /\ result' = result
                ELSE pc' = "done" /\ result' = ExtractText(response)
         ELSE pc' = "call" /\ result' = result
    /\ UNCHANGED <<base_params, tools, tool_manager, tool_rounds_used, response, blk, tool_results,
                   any_tool_succeeded, raised, calls, execs>>
    /\ UNCHANGED rvars
    /\ UNCHANGED cvars

\* ai_generator.py:151-175, the forced-synthesis call returns and the answer
\* is extracted from its response.
Synthesize ==
    /\ pc = "post"
    /\ \E r \in Responses(Len(calls) + 1) :
          /\ response' = r
          /\ calls' = Append(calls, Call("final", FinalParams(tools), messages, r, None))
          /\ result' = ExtractText(r)
    /\ pc' = "done"
    /\ UNCHANGED <<base_params, tools, tool_manager, messages, tool_rounds_used, blk, tool_results,
                   any_tool_succeeded, raised, execs>>
    /\ UNCHANGED rvars
    /\ UNCHANGED cvars

\* ai_generator.py:161, the forced-synthesis call raises.
SynthesizeRaises ==
    /\ pc = "post"
    /\ \E e \in TransportErrors :
          /\ calls' = Append(calls, Call("final", FinalParams(tools), messages, NoResponse, e))
          /\ raised' = e
    /\ pc' = "raised"
    /\ UNCHANGED <<base_params, tools, tool_manager, messages, tool_rounds_used, response, blk,
                   tool_results, any_tool_succeeded, result, execs>>
    /\ UNCHANGED rvars
    /\ UNCHANGED cvars

Next ==
    \/ GenerateResponse
    \/ Create
    \/ CreateRaises
    \/ ExecuteTool
    \/ EndRound
    \/ Synthesize
    \/ SynthesizeRaises

Spec == Init /\ [][Next]_vars

\* The handler is synchronous code: it always takes its next step, and every
\* completion call and every tool call returns or raises.
FairSpec == Spec /\ WF_vars(Next)

\* ------------------------------------------------- the registry's actions
\* A registry operation op, before its outcome is filled in.
Op(op) == [NoOp EXCEPT !.op = op]

\* search_tools.py:254-260, ToolManager.register_tool(tool).
register_tool ==
    /\ \E tool \in Instances :
          LET tool_name == DefinitionName(tool)
          IN  IF ~Truthy(tool_name)
                THEN /\ last' = [Op("register_tool") EXCEPT !.inst = tool,
                                                            !.exc = "ValueError"]
                     /\ registered' = registered
                ELSE /\ last' = [Op("register_tool") EXCEPT
                                    !.name = tool_name,
                                    !.inst = tool,
                                    !.prev = IF Registered(registered, tool_name)
                                               THEN ToolOf(registered, tool_name)
                                             ELSE None]
                     /\ registered' = Put(registered, tool_name, tool)
    /\ UNCHANGED <<last_sources, runs, src_run, reset_run, latest>>
    /\ UNCHANGED ovars
    /\ UNCHANGED cvars

\* The ways one execute call of the tool object `tool` can go.
Executions(tool) ==
    IF tool = "outline1" THEN OutlineExecutions ELSE SearchExecutions

\* search_tools.py:267-272, ToolManager.execute_tool(tool_name, **kwargs),
\* with the execute call of the tool it dispatches to.
execute_tool ==
    /\ \E tool_name \in RequestedNames :
          IF ~Registered(registered, tool_name)
            THEN /\ last' = [Op("execute_tool") EXCEPT !.name = tool_name,
                                                       !.path = "not_found",
                                                       !.ret = NotFound(tool_name)]
                 /\ UNCHANGED <<last_sources, src_run, latest>>
            ELSE LET tool == ToolOf(registered, tool_name)
                 IN  \E done \in Executions(tool) :
                        /\ last' = [Op("execute_tool") EXCEPT
                                       !.name = tool_name, !.inst = tool,
                                       !.path = done.path, !.ret = done.ret,
                                       !.exc = done.exc, !.sources = done.last_sources]
                        /\ last_sources' = IF done.assigns
                                             THEN [last_sources EXCEPT
                                                      ![tool] = done.last_sources]
                                           ELSE last_sources
                        /\ src_run' = IF done.assigns
                                        THEN [src_run EXCEPT ![tool] = runs]
                                      ELSE src_run
                        /\ latest' = IF done.last_sources # <<>>
                                       THEN [inst |-> tool, sources |-> done.last_sources]
                                     ELSE latest
    /\ UNCHANGED <<registered, runs, reset_run>>
    /\ UNCHANGED ovars
    /\ UNCHANGED cvars

\* The tool get_last_sources takes its answer from, None when it finds none.
SourceTool(reg, ls) ==
    IF FirstWithSources(reg, ls, 1) = 0 THEN None
    ELSE reg[FirstWithSources(reg, ls, 1)].inst

\* search_tools.py:274-280, the value of ToolManager.get_last_sources().
LastSources(reg, ls) ==
    IF FirstWithSources(reg, ls, 1) = 0 THEN <<>>
    ELSE ls[reg[FirstWithSources(reg, ls, 1)].inst]

\* search_tools.py:274-280, a call of ToolManager.get_last_sources().
get_last_sources ==
    /\ last' = [Op("get_last_sources") EXCEPT
                   !.inst = SourceTool(registered, last_sources),
                   !.sources = LastSources(registered, last_sources)]
    /\ UNCHANGED <<registered, last_sources, runs, src_run, reset_run, latest>>
    /\ UNCHANGED ovars
    /\ UNCHANGED cvars

\* search_tools.py:282-286, a call of ToolManager.reset_sources().  The
\* record of the operation keeps what get_last_sources answered before it.
reset_sources ==
    /\ last_sources' = Cleared(registered, last_sources)
    /\ last' = [Op("reset_sources") EXCEPT
                   !.sources = LastSources(registered, last_sources)]
    /\ reset_run' = runs
    /\ latest' = NoLatest
    /\ UNCHANGED <<registered, runs, src_run>>
    /\ UNCHANGED ovars
    /\ UNCHANGED cvars

\* ai_generator.py:55-104, a caller starts a run of generate_response with
\* this registry: up to its first completion call the handler calls none of
\* the registry's methods.
BeginRun ==
    /\ runs < MaxRuns
    /\ runs' = runs + 1
    /\ last' = Op("generate_response")
    /\ UNCHANGED <<registered, last_sources, src_run, reset_run, latest>>
    /\ UNCHANGED ovars
    /\ UNCHANGED cvars

\* The caller's handler is idle while the registry is used directly.
RegistryNext ==
    \/ register_tool
    \/ execute_tool
    \/ get_last_sources
    \/ reset_sources

\* The registry and its tools under every sequence of calls of their public
\* methods, starting from an empty registry.
RegistryInit ==
    /\ Init
    /\ tools = TRUE
    /\ tool_manager = TRUE

RegistrySpec == RegistryInit /\ [][RegistryNext]_vars

\* The registry after the setup that registers a CourseSearchTool and then a
\* CourseOutlineTool.
BothTools == Put(Put(<<>>, DefinitionName("search1"), "search1"),
                 DefinitionName("outline1"), "outline1")

RunInit ==
    /\ Idle
    /\ tools = TRUE
    /\ tool_manager = TRUE
    /\ Constructed(BothTools)
    /\ CallersInit

\* The registry is set up once; then callers start runs of generate_response
\* with it, tools execute, and citations are read and reset.
RunNext ==
    \/ BeginRun
    \/ execute_tool
    \/ get_last_sources
    \/ reset_sources

RunSpec == RunInit /\ [][RunNext]_vars

\* ------------------------------------------- the tools, called directly
\* The place of a direct call in the life of the tools: the first call made
\* on freshly constructed tools, or a call that follows another.
Following(nth) == IF nth = "none" THEN "first" ELSE "later"

\* What a call of execute leaves behind in the tool object and in the record
\* of the latest operation.
Leaves(tool, done) ==
    /\ last' = [Op("execute") EXCEPT !.inst = tool, !.path = done.path,
                                     !.ret = done.ret, !.exc = done.exc,
                                     !.sources = done.last_sources]
    /\ last_sources' = IF done.assigns
                         THEN [last_sources EXCEPT ![tool] = done.last_sources]
                       ELSE last_sources
    /\ src_run' = IF done.assigns THEN [src_run EXCEPT ![tool] = runs] ELSE src_run
    /\ latest' = IF done.last_sources # <<>>
                   THEN [inst |-> tool, sources |-> done.last_sources]
                 ELSE latest

\* search_tools.py:55-153, a call of CourseSearchTool.execute on the tool
\* object search1, against a store that holds every kind of catalog entry.
search_execute ==
    /\ call.nth \in {"none", "first"}
    /\ \E c \in CourseNameArgs, n \in LessonNumberArgs, o \in AllSearchOutcomes :
          /\ call' = [NoCall EXCEPT !.nth = Following(call.nth), !.tool = "search1",
                                    !.course_name = c, !.lesson_number = n,
                                    !.search = o, !.lookups = StoreLookups(o)]
          /\ Leaves("search1", CourseSearchTool_execute(c, n, o))
    /\ UNCHANGED <<registered, runs, reset_run, reqs, earlier>>
    /\ UNCHANGED ovars

\* search_tools.py:180-245, a call of CourseOutlineTool.execute on the tool
\* object outline1.
outline_execute ==
    /\ call.nth \in {"none", "first"}
    /\ \E c \in OutlineNameArgs, o \in OutlineOutcomes :
          /\ call' = [NoCall EXCEPT !.nth = Following(call.nth), !.tool = "outline1",
                                    !.course_name = c, !.outline = o]
          /\ Leaves("outline1", CourseOutlineTool_execute(c, o))
    /\ UNCHANGED <<registered, runs, reset_run, reqs, earlier>>
    /\ UNCHANGED ovars

ToolNext ==
    \/ search_execute
    \/ outline_execute

\* Freshly constructed tools, called directly: every call of execute, on
\* every stored citation list an earlier call can have left.
ToolSpec == RegistryInit /\ [][ToolNext]_vars

\* ------------------------------------- requests that share the registry
\* Another request than r is between its reset and its read.
OthersRunning(r) == {q \in Requests \ {r} : reqs[q].pc = "running"}

\* The requests after a step of request r that takes r to position `to` and
\* reads the citations recorded by request `read`: the step falls into the run
\* of every other request that is under way, and so do theirs into r's.
Step(r, to, read, losers) ==
    [q \in Requests |->
        IF q = r
          THEN [reqs[r] EXCEPT !.pc = to, !.got = read,
                               !.overlapped = @ \/ OthersRunning(r) # {}]
        ELSE IF reqs[q].pc = "running"
          THEN [reqs[q] EXCEPT !.overlapped = TRUE, !.lost = @ \/ q \in losers]
        ELSE reqs[q]]

\* The requests whose recorded citations a reset_sources call wipes out.
Holders(reg, ls) ==
    {src_run[reg[i].inst] : i \in {j \in DOMAIN reg : ls[reg[j].inst] # <<>>}}

\* search_tools.py:282-286, the caller starts request r: it calls
\* reset_sources before the run of generate_response.  Requests are numbered
\* in the order in which they start.
RequestReset(r) ==
    /\ reqs[r].pc = "idle"
    /\ \A q \in Requests : q < r => reqs[q].pc # "idle"
    /\ last_sources' = Cleared(registered, last_sources)
    /\ last' = [Op("reset_sources") EXCEPT
                   !.sources = LastSources(registered, last_sources)]
    /\ reset_run' = r
    /\ latest' = NoLatest
    /\ reqs' = Step(r, "running", 0, Holders(registered, last_sources))
    /\ UNCHANGED <<registered, runs, src_run, call, earlier>>
    /\ UNCHANGED ovars

\* What the execute calls of a tool can leave in its last_sources: whether
\* the call assigns the field, and the list it assigns.
Effect(done) == [assigns |-> done.assigns, last_sources |-> done.last_sources]

SearchEffects == {Effect(done) : done \in SearchExecutions}

OutlineEffects == {Effect(done) : done \in OutlineExecutions}

Effects(tool) == IF tool = "outline1" THEN OutlineEffects ELSE SearchEffects

\* search_tools.py:267-272 with ai_generator.py:121, the run of request r
\* executes a registered tool; the text the call returns goes to the run.
RequestExecute(r) ==
    /\ reqs[r].pc = "running"
    /\ \E i \in DOMAIN registered :
          \E done \in Effects(registered[i].inst) :
             LET tool == registered[i].inst
             IN  /\ last' = [Op("execute_tool") EXCEPT
                                !.name = registered[i].name, !.inst = tool,
                                !.sources = done.last_sources]
                 /\ last_sources' = IF done.assigns
                                      THEN [last_sources EXCEPT
                                               ![tool] = done.last_sources]
                                    ELSE last_sources
                 /\ src_run' = IF done.assigns
                                 THEN [src_run EXCEPT ![tool] = r]
                               ELSE src_run
                 /\ latest' = IF done.last_sources # <<>>
                                THEN [inst |-> tool, sources |-> done.last_sources]
                              ELSE latest
    /\ reqs' = Step(r, "running", 0, {})
    /\ UNCHANGED <<registered, runs, reset_run, call, earlier>>
    /\ UNCHANGED ovars

\* search_tools.py:274-280, the caller ends request r: it calls
\* get_last_sources after the run.
RequestRead(r) ==
    /\ reqs[r].pc = "running"
    /\ last' = [Op("get_last_sources") EXCEPT
                   !.inst = SourceTool(registered, last_sources),
                   !.sources = LastSources(registered, last_sources)]
    /\ reqs' = Step(r, "done",
                    IF SourceTool(registered, last_sources) = None THEN 0
                    ELSE src_run[SourceTool(registered, last_sources)],
                    {})
    /\ UNCHANGED <<registered, last_sources, runs, src_run, reset_run, latest, call, earlier>>
    /\ UNCHANGED ovars

request_reset == \E r \in Requests : RequestReset(r)

request_execute == \E r \in Requests : RequestExecute(r)

request_read == \E r \in Requests : RequestRead(r)

\* A request starts when no other request is under way.
serial_reset == \E r \in Requests : OthersRunning(r) = {} /\ RequestReset(r)

\* One request at a time: each request resets the citations, runs, and reads
\* them before the next request starts.
SerialNext ==
    \/ serial_reset
    \/ request_execute
    \/ request_read

SerialSpec == RunInit /\ [][SerialNext]_vars

\* Requests that share the registry and whose steps interleave freely.
SharedNext ==
    \/ request_reset
    \/ request_execute
    \/ request_read

SharedSpec == RunInit /\ [][SharedNext]_vars

\* ------------------------------ the handler with the real search tool
\* test_07_error_injection.py:89-95: a registry that holds the one
\* CourseSearchTool, over a store whose search raises on every call.
SearchOnly == Put(<<>>, DefinitionName("search1"), "search1")

StoreDown == {o \in SearchOutcomes : o.kind = "raise"}

\* search_tools.py:267-272, what execute_tool does with the name of a block
\* when the tool it dispatches to ends as `done`, seen from the try block of
\* ai_generator.py:120-132: a returned string, or the exception of the tool.
Dispatched(done) ==
    IF done.exc # None
      THEN [kind |-> "raise", val |-> PyStr(""), exc |-> done.exc,
            msg |-> "catalog unavailable"]
    ELSE [kind |-> "return", val |-> PyStr(done.ret), exc |-> None, msg |-> None]

\* ai_generator.py:118-140 with search_tools.py:267-272 and 55-93, one
\* iteration of the for-loop on a tool_use block, executed by the registry
\* and the tool it holds while the store is down.
ExecuteRegisteredTool ==
    /\ pc = "exec"
    /\ blk <= Len(response.content)
    /\ LET block == response.content[blk]
       IN  \E done \in IF Registered(registered, block.name)
                         THEN {CourseSearchTool_execute(c, n, o) :
                                  c \in CourseNameArgs, n \in LessonNumberArgs,
                                  o \in StoreDown}
                       ELSE {Executed("not_found", NotFound(block.name), None)} :
              LET o    == Dispatched(done)
                  run  == RunTool(block, o)
                  tool == IF Registered(registered, block.name)
                            THEN ToolOf(registered, block.name)
                          ELSE None
              IN  /\ execs' = Append(execs, [round |-> tool_rounds_used,
                                             id |-> block.id, name |-> block.name,
                                             outcome |-> o])
                  /\ tool_results' = Append(tool_results, ToolResult(block, run.content))
                  /\ any_tool_succeeded' = (any_tool_succeeded \/ run.succeeded)
                  /\ blk' = NextToolUse(response.content, blk + 1)
                  /\ last' = [Op("execute_tool") EXCEPT
                                 !.name = block.name, !.inst = tool,
                                 !.path = done.path, !.ret = done.ret,
                                 !.exc = done.exc, !.sources = done.last_sources]
                  /\ last_sources' = IF done.assigns
                                       THEN [last_sources EXCEPT
                                                ![tool] = done.last_sources]
                                     ELSE last_sources
    /\ UNCHANGED <<base_params, pc, raised, tools, tool_manager, messages, tool_rounds_used,
                   response, result, calls>>
    /\ UNCHANGED <<registered, runs, src_run, reset_run, latest>>
    /\ UNCHANGED cvars

StoreDownInit ==
    /\ Idle
    /\ tools = TRUE
    /\ tool_manager = TRUE
    /\ Constructed(SearchOnly)
    /\ CallersInit

StoreDownNext ==
    \/ GenerateResponse
    \/ Create
    \/ CreateRaises
    \/ ExecuteRegisteredTool
    \/ EndRound
    \/ Synthesize
    \/ SynthesizeRaises

\* Runs of generate_response with the catalog and the registry of the real
\* search tool, while the store is down.
StoreDownSpec == StoreDownInit /\ [][StoreDownNext]_vars

\* ------------------------------------- successive runs on one AIGenerator
\* Mutant of NextQuery: the message list of the run before is kept and the
\* new query is appended to it.
NextQuery_KeepsHistory ==
    /\ pc \in {"idle", "done", "raised"}
    /\ runs < MaxRuns
    /\ runs' = runs + 1
    /\ earlier' = IF pc = "idle" THEN NoRunBefore
                  ELSE Left(tool_rounds_used, messages)
    /\ messages' = Append(messages, [role |-> "user", content |-> QueryOf(runs + 1)])
    /\ UNCHANGED <<base_params, tools, tool_manager>>
    /\ tool_rounds_used' = 0
    /\ response' = NoResponse
    /\ blk' = 0
    /\ tool_results' = <<>>
    /\ any_tool_succeeded' = FALSE
    /\ result' = None
    /\ raised' = None
    /\ calls' = <<>>
    /\ execs' = <<>>
    /\ pc' = "call"
    /\ UNCHANGED <<registered, last_sources, last, src_run, reset_run, latest>>
    /\ UNCHANGED <<call, reqs>>

\* ai_generator.py:55-101, entry of generate_response for the next query a
\* caller puts to the same AIGenerator: api_params and tool_rounds_used are
\* locals, built anew from self.base_params and the query.
NextQuery ==
    /\ pc \in {"idle", "done", "raised"}
    /\ runs < MaxRuns
    /\ runs' = runs + 1
    /\ earlier' = IF pc = "idle" THEN NoRunBefore
                  ELSE Left(tool_rounds_used, messages)
    /\ messages' = <<[role |-> "user", content |-> QueryOf(runs + 1)]>>
    /\ UNCHANGED <<base_params, tools, tool_manager>>
    /\ tool_rounds_used' = 0
    /\ response' = NoResponse
    /\ blk' = 0
    /\ tool_results' = <<>>
    /\ any_tool_succeeded' = FALSE
    /\ result' = None
    /\ raised' = None
    /\ calls' = <<>>
    /\ execs' = <<>>
    /\ pc' = "call"
    /\ UNCHANGED <<registered, last_sources, last, src_run, reset_run, latest>>
    /\ UNCHANGED <<call, reqs>>

RerunInit ==
    /\ Idle
    /\ tools = TRUE
    /\ tool_manager = TRUE
    /\ ToolManagerInit
    /\ CallersInit

RerunNext ==
    \/ NextQuery
    \/ Create
    \/ CreateRaises
    \/ ExecuteTool
    \/ EndRound
    \/ Synthesize
    \/ SynthesizeRaises

\* One AIGenerator answers the queries of a caller one after the other.
RerunSpec == RerunInit /\ [][RerunNext]_vars

\* ------------------------------------------------------------ observations
\* The response has a text segment.
HasText(r) == FirstText(r.content, 1) # 0

\* The text of the first text segment of a response that has one.
TextOf(r) == r.content[FirstText(r.content, 1)].text

\* Completion call i was made and returned a response.
Returned(i) == i <= Len(calls) /\ calls[i].error = None

\* Completion call i returned a response that requests tool use.
RequestsTools(i) == Returned(i) /\ calls[i].response.stop_reason = "tool_use"

\* Completion call i returned a direct text answer.
DirectAnswer(i) ==
    /\ Returned(i)
    /\ calls[i].response.stop_reason # "tool_use"
    /\ HasText(calls[i].response)

\* The execute_tool calls of round k, as indices of the log.
ExecsOf(k) == {i \in DOMAIN execs : execs[i].round = k}

\* The tool_use segments of a content list, as positions.
ToolUses(c) == {i \in DOMAIN c : c[i].type = "tool_use"}

\* Round k is over: its results message has been appended.
RoundOver(k) == Len(messages) >= 1 + 2 * k

\* The answer returned is the one response r holds: its first text, or one of
\* the two literal error answers when it has none.
AnswerOf(r) ==
    IF HasText(r) THEN result = TextOf(r)
    ELSE result \in {EmptyResponseError, NoTextError}

\* ------------------------------------------------------------------ claims

\* C1: when the first completion response does not request tool use and has
\* a text segment, the run is over with exactly one completion call, no tool
\* executed, and that response's first text returned unchanged.
C1_DirectAnswerOneCall ==
    DirectAnswer(1) =>
        /\ pc = "done"
        /\ Len(calls) = 1
        /\ execs = <<>>
        /\ result = TextOf(calls[1].response)

C1_Witness ==
    /\ pc = "done"
    /\ DirectAnswer(1)
    /\ tools /\ tool_manager
    /\ Len(calls[1].response.content) = 2
    /\ calls[1].response.content[1].type = "tool_use"
    /\ calls[1].response.content[2].type = "text"

\* C2: with a registry, when the service requests tools in round 1 and again
\* in round 2, a finished run has made exactly 3 completion calls, the 3rd
\* carries neither the catalog nor a tool-choice setting, and the answer is
\* the 3rd response's; no state of such a run has more than 3 calls.
C2_TwoRoundsThenSynthesis ==
    (tool_manager /\ RequestsTools(1) /\ RequestsTools(2) /\ calls[2].site = "loop") =>
        /\ Len(calls) <= 3
        /\ tool_rounds_used = 2
        /\ pc = "done" =>
              /\ Len(calls) = 3
              /\ calls[3].site = "final"
              /\ ~calls[3].tools
              /\ ~calls[3].tool_choice
              /\ AnswerOf(calls[3].response)

C2_Witness ==
    /\ pc = "done"
    /\ tools /\ tool_manager
    /\ RequestsTools(1) /\ RequestsTools(2) /\ calls[2].site = "loop"
    /\ Len(calls) = 3
    /\ calls[1].tools /\ calls[2].tools
    /\ HasText(calls[3].response)

\* C3: with a registry, when every tool invocation of round 1 raised, the
\* loop ends after that round: a finished run has made exactly 2 completion
\* calls, the 2nd is the forced synthesis without the catalog, and the answer
\* is the 2nd response's.
C3_AllFailedRoundOne ==
    (/\ tool_manager /\ RequestsTools(1) /\ RoundOver(1)
     /\ \A i \in ExecsOf(1) : execs[i].outcome.kind = "raise") =>
        /\ Len(calls) <= 2
        /\ tool_rounds_used = 1
        /\ pc = "done" =>
              /\ Len(calls) = 2
              /\ calls[2].site = "final"
              /\ ~calls[2].tools
              /\ ~calls[2].tool_choice
              /\ AnswerOf(calls[2].response)

C3_Witness ==
    /\ pc = "done"
    /\ tools /\ tool_manager
    /\ RequestsTools(1)
    /\ Cardinality(ExecsOf(1)) = 2
    /\ \A i \in ExecsOf(1) : execs[i].outcome.kind = "raise"
    /\ Len(calls) = 2
    /\ HasText(calls[2].response)

\* C4: with a registry, when round 1 requests tools, at least one invocation
\* succeeds and the second response is a direct text answer, the run is over
\* with exactly 2 completion calls, each round-1 invocation executed exactly
\* once, the 2nd request made inside the loop with the catalog still
\* attached, and the 2nd response's text returned.
C4_OneRoundThenAnswer ==
    (/\ tool_manager /\ RequestsTools(1)
     /\ \E i \in ExecsOf(1) : execs[i].outcome.kind = "return"
     /\ DirectAnswer(2)) =>
        /\ pc = "done"
        /\ Len(calls) = 2
        /\ Len(execs) = Cardinality(ToolUses(calls[1].response.content))
        /\ \A b \in ToolUses(calls[1].response.content) :
              Cardinality({i \in DOMAIN execs :
                              execs[i].id = calls[1].response.content[b].id}) = 1
        /\ calls[2].site = "loop"
        /\ calls[2].tools = tools
        /\ calls[2].tool_choice = tools
        /\ tools => calls[2].tools
        /\ result = TextOf(calls[2].response)

C4_Witness ==
    /\ pc = "done"
    /\ tools /\ tool_manager
    /\ RequestsTools(1)
    /\ DirectAnswer(2)
    /\ Cardinality(ExecsOf(1)) = 2
    /\ \E i \in ExecsOf(1) : execs[i].outcome.kind = "return"
    /\ \E i \in ExecsOf(1) : execs[i].outcome.kind = "raise"

\* C5: in every reachable state of a run at most 3 completion calls have been
\* made and at most 2 (MAX_TOOL_ROUNDS) tool rounds have been started.
C5_CallAndRoundBounds ==
    /\ Len(calls) <= 3
    /\ tool_rounds_used <= 2
    /\ tool_rounds_used <= MAX_TOOL_ROUNDS
    /\ Len(calls) <= MAX_TOOL_ROUNDS + 1

C5_Witness ==
    /\ Len(calls) = 3
    /\ tool_rounds_used = 2
    /\ pc = "done"

\* C6: under FairSpec, every run started eventually ends, and it ends by
\* returning a string unless a completion call failed at transport level:
\* whatever the responses and the tool outcomes, it neither loops forever
\* nor raises.
C6_RunTerminates ==
    /\ [](pc = "raised" => calls # <<>> /\ calls[Len(calls)].error \in TransportErrors)
    /\ [](pc = "done" => result # None /\ raised = None)
    /\ (pc \in {"call", "exec", "post"}) ~> (pc \in {"done", "raised"})

C6_Witness ==
    /\ pc = "done"
    /\ result # None
    /\ tool_rounds_used = 2
    /\ \A i \in DOMAIN calls : calls[i].error = None
    /\ \E i \in ExecsOf(1) : execs[i].outcome.kind = "raise"
    /\ \A i \in ExecsOf(2) : execs[i].outcome.kind = "raise"
    /\ calls[3].response.stop_reason = "tool_use"
    /\ calls[3].response.content = <<>>

\* C7: a completion call that fails at transport level is the last call of
\* its run, whichever call it is: the same error leaves generate_response,
\* nothing is returned, and no further completion call is made.
C7_TransportErrorPropagates ==
    \A i \in DOMAIN calls :
        calls[i].error # None =>
            /\ i = Len(calls)
            /\ pc = "raised"
            /\ raised = calls[i].error
            /\ result = None

C7_Witness ==
    /\ pc = "raised"
    /\ Len(calls) = 2
    /\ calls[2].site = "loop"
    /\ calls[2].error = "APITimeoutError"
    /\ raised = "APITimeoutError"

\* C8 as stated: once the first completion call has returned, the run never
\* raises.
C8_NeverRaisesAfterFirstCall ==
    Returned(1) => pc # "raised"

\* C8 as amended: once the first completion call has returned, the run raises
\* only when a later completion call fails at transport level, and then with
\* that call's error; tool exceptions, tool output that is not a string and
\* responses without text never make it raise, and a run that ends otherwise
\* returns a string.
C8_RaisesOnlyOnTransportFailure ==
    /\ (Returned(1) /\ pc = "raised") =>
          /\ Len(calls) > 1
          /\ calls[Len(calls)].error \in TransportErrors
          /\ raised = calls[Len(calls)].error
    /\ (Returned(1) /\ \A i \in DOMAIN calls : calls[i].error = None) =>
          /\ pc # "raised"
          /\ raised = None
          /\ pc = "done" => result # None

C8_Witness ==
    /\ pc = "done"
    /\ \E i \in DOMAIN execs : execs[i].outcome.kind = "raise"
    /\ \E i \in DOMAIN execs : ~IsStr(execs[i].outcome.val)
    /\ ~HasText(calls[Len(calls)].response)
    /\ result = NoTextError

\* C9 as stated: without a registry exactly one completion call is made and
\* the answer comes from the first response, also when it requests tool use.
C9_NoRegistryOneCall ==
    (pc = "done" /\ ~tool_manager) =>
        /\ Len(calls) = 1
        /\ AnswerOf(calls[1].response)

\* C9 as amended: without a registry the round loop is skipped (no round is
\* counted, no tool is executed, no message is appended); a first response
\* that does not request tool use is the one the answer is extracted from,
\* after exactly one completion call; a first response that requests tool
\* use is followed by the forced-synthesis call without the catalog, so 2
\* completion calls are made and the answer is extracted from the 2nd
\* response.
C9_NoRegistrySkipsLoop ==
    (~tool_manager /\ pc # "idle") =>
        /\ tool_rounds_used = 0
        /\ execs = <<>>
        /\ Len(messages) = 1
        /\ pc = "done" =>
              IF calls[1].response.stop_reason = "tool_use"
                THEN /\ Len(calls) = 2
                     /\ calls[2].site = "final"
                     /\ ~calls[2].tools
                     /\ ~calls[2].tool_choice
                     /\ Len(calls[2].messages) = 1
                     /\ AnswerOf(calls[2].response)
                ELSE /\ Len(calls) = 1
                     /\ AnswerOf(calls[1].response)

C9_Witness ==
    /\ pc = "done"
    /\ ~tool_manager
    /\ tools
    /\ Len(calls) = 2
    /\ ToolUses(calls[1].response.content) # {}
    /\ HasText(calls[2].response)

\* C10: an invocation that raises does not make the run fail: its tool
\* result carries "Error executing tool '<name>': <errorKind>: <message>",
\* stands in the round's results message at the place of its invocation, and
\* every later completion request carries that message.
C10_FailedToolResultDelivered ==
    \A i \in DOMAIN execs :
        execs[i].outcome.kind = "raise" =>
            LET e    == execs[i]
                k    == e.round
                n    == Cardinality({j \in ExecsOf(k) : j <= i})
                want == [type        |-> "tool_result",
                         tool_use_id |-> e.id,
                         content     |-> PyStr("Error executing tool '" \o e.name
                                               \o "': " \o e.outcome.exc
                                               \o ": " \o e.outcome.msg)]
            IN  /\ raised \notin {e.outcome.exc}
                /\ IF RoundOver(k)
                     THEN /\ messages[1 + 2 * k].role = "user"
                          /\ messages[1 + 2 * k].content[n] = want
                          /\ \A c \in DOMAIN calls :
                                c > k => calls[c].messages[1 + 2 * k].content[n] = want
                          /\ pc = "done" => Len(calls) > k
                     ELSE tool_results[n] = want

C10_Witness ==
    /\ pc = "done"
    /\ Len(calls) = 2
    /\ calls[2].site = "loop"
    /\ Len(execs) = 2
    /\ execs[1].outcome.kind = "return"
    /\ execs[2].outcome.kind = "raise"
    /\ execs[2].name = "get_course_outline"
    /\ messages[3].content[2].content.str =
          "Error executing tool 'get_course_outline': Exception: Tool failed"

\* The response the answer of a finished run was extracted from.
FinalResponse == calls[Len(calls)].response

\* The tool results of the results message of round k.
ResultsOf(k) == messages[1 + 2 * k].content

\* C11: every tool-result content placed in a results message is a string: a
\* value returned by execute_tool that is not a string is embedded as its
\* str() form, the invocation counts as succeeded, and nothing is raised.
C11_ToolResultsAreStrings ==
    /\ \A n \in DOMAIN tool_results : IsStr(tool_results[n].content)
    /\ \A k \in 1..tool_rounds_used :
          RoundOver(k) => \A n \in DOMAIN ResultsOf(k) : IsStr(ResultsOf(k)[n].content)
    /\ \A i \in DOMAIN execs :
          (execs[i].outcome.kind = "return" /\ ~IsStr(execs[i].outcome.val)) =>
              LET k    == execs[i].round
                  n    == Cardinality({j \in ExecsOf(k) : j <= i})
                  have == IF RoundOver(k) THEN ResultsOf(k)[n] ELSE tool_results[n]
              IN  /\ have.tool_use_id = execs[i].id
                  /\ have.content = PyStr("{'error': 'not a string'}")
                  /\ raised \notin {"TypeError"}
                  /\ ~RoundOver(k) => any_tool_succeeded
                  /\ (RoundOver(k) /\ k < MAX_TOOL_ROUNDS /\ pc = "done") =>
                        (Len(calls) > k /\ calls[k + 1].site = "loop")

C11_Witness ==
    /\ pc = "done"
    /\ Len(execs) = 1
    /\ ~IsStr(execs[1].outcome.val)
    /\ Len(calls) = 2
    /\ calls[2].site = "loop"
    /\ ResultsOf(1)[1].content.str = "{'error': 'not a string'}"

\* C12: whenever the response the answer is extracted from carries no content
\* at all, whichever call it answers, the run returns the literal
\* empty-response error string and raises nothing.
C12_EmptyContentAnswer ==
    (pc = "done" /\ Len(FinalResponse.content) = 0) =>
        /\ result = "Error: Received empty response from Claude API. Please try again."
        /\ raised = None

C12_Witness ==
    /\ pc = "done"
    /\ Len(calls) = 3
    /\ calls[3].site = "final"
    /\ calls[3].response.content = <<>>
    /\ result = EmptyResponseError

\* C13: whenever the response the answer is extracted from has content but no
\* text segment, the run returns the literal 'no text content' error string;
\* when it has a text segment it returns the text of the first one in order,
\* also when segments that are not text precede it.
C13_FirstTextOrNoTextError ==
    (pc = "done" /\ Len(FinalResponse.content) > 0) =>
        LET c == FinalResponse.content
        IN  IF \A i \in DOMAIN c : c[i].type # "text"
              THEN result = "Error: Received response with no text content from Claude API. Please try again."
              ELSE \E i \in DOMAIN c :
                      /\ c[i].type = "text"
                      /\ \A j \in 1..(i - 1) : c[j].type # "text"
                      /\ result = c[i].text

C13_Witness ==
    /\ pc = "done"
    /\ Len(FinalResponse.content) = 2
    /\ FinalResponse.content[1].type = "tool_use"
    /\ FinalResponse.content[2].type = "text"
    /\ result = FinalResponse.content[2].text

\* The completion calls made by the forced synthesis (line 161).
FinalCalls == {i \in DOMAIN calls : calls[i].site = "final"}

\* C14: when the loop exits while the last response still requests tool use,
\* exactly one further completion request is issued, with the accumulated
\* message history and without the tool catalog; it is the last step of the
\* run: no tool is executed and no completion call is made after it, also
\* when its own response has stop reason tool_use.
C14_OneForcedSynthesis ==
    /\ Cardinality(FinalCalls) <= 1
    /\ \A i \in FinalCalls :
          /\ i = Len(calls)
          /\ i > 1 => RequestsTools(i - 1)
          /\ ~calls[i].tools /\ ~calls[i].tool_choice
          /\ calls[i].messages = messages
          /\ Len(messages) = 1 + 2 * tool_rounds_used
          /\ pc \in {"done", "raised"}
          /\ Len(execs) =
               Cardinality(UNION {{<<k, b>> : b \in ToolUses(calls[k].response.content)} :
                                     k \in 1..tool_rounds_used})
    /\ pc = "post" => (FinalCalls = {} /\ RequestsTools(Len(calls)))
    /\ (pc = "done" /\ FinalCalls = {}) => ~RequestsTools(Len(calls))

C14_Witness ==
    /\ pc = "done"
    /\ tools /\ tool_manager
    /\ Len(calls) = 3
    /\ calls[3].site = "final"
    /\ calls[3].response.stop_reason = "tool_use"
    /\ ToolUses(calls[3].response.content) # {}
    /\ Len(execs) = 2

\* The tool object is an entry of the registry.
Holds(reg, inst) == \E i \in DOMAIN reg : reg[i].inst = inst

\* C15: register_tool fails with a configuration error when the name of the
\* tool's definition is already registered: the second registration under a
\* name raises and the tool registered first stays in place.
C15_DuplicateNameRejected ==
    (last.op = "register_tool" /\ last.prev # None) =>
        /\ last.exc = "ValueError"
        /\ ToolOf(registered, last.name) = last.prev

\* C16: execute_tool with a name that is not registered returns the literal
\* "Tool '<name>' not found" and raises nothing; no tool is executed and the
\* stored citations of every tool stay as they were.
C16_UnknownToolNotFound ==
    [][(last'.op = "execute_tool" /\ ~Registered(registered, last'.name)) =>
          /\ last'.ret = "Tool '" \o last'.name \o "' not found"
          /\ last'.name = "unknown_tool" => last'.ret = "Tool 'unknown_tool' not found"
          /\ last'.exc = None
          /\ last'.inst = None
          /\ last_sources' = last_sources
          /\ src_run' = src_run
          /\ latest' = latest
          /\ registered' = registered]_vars

C16_Witness ==
    /\ last.op = "execute_tool"
    /\ last.name = "get_course_outline"
    /\ last.ret = "Tool 'get_course_outline' not found"
    /\ Holds(registered, "search1")
    /\ ~Registered(registered, "get_course_outline")
    /\ Len(last_sources["search1"]) = 2

\* C17: with a CourseSearchTool and a CourseOutlineTool registered,
\* get_last_sources returns the citation list recorded by the execution that
\* most recently recorded a non-empty one, as long as its tool still holds it:
\* after a search with results and then an outline with a course link, the
\* citation of the outline.
C17_MostRecentCitations ==
    (/\ last.op = "get_last_sources"
     /\ Registered(registered, ToolNames[1])
     /\ Registered(registered, ToolNames[2])
     /\ latest.inst # None
     /\ Holds(registered, latest.inst)
     /\ last_sources[latest.inst] = latest.sources) =>
        last.sources = latest.sources

\* C18: reset_sources empties the stored citations of every registered tool
\* and leaves the registered tools as they are; a get_last_sources call made
\* right after it returns the empty list.
C18_ResetClearsEveryTool ==
    [][/\ last'.op = "reset_sources" =>
             /\ \A i \in DOMAIN registered : last_sources'[registered[i].inst] = <<>>
             /\ registered' = registered
       /\ (last.op = "reset_sources" /\ last'.op = "get_last_sources") =>
             last'.sources = <<>>]_vars

C18_Witness ==
    /\ last.op = "reset_sources"
    /\ last.sources # <<>>
    /\ Len(registered) = 2
    /\ \A i \in DOMAIN registered : last_sources[registered[i].inst] = <<>>

\* C19: every execute call of a tool overwrites the tool's stored citations:
\* after the call, on whichever path it took, the tool holds exactly the
\* citations of that call, none when the call retrieved nothing.
C19_CitationsOverwritten ==
    (last.op = "execute_tool" /\ last.inst # None) =>
        last_sources[last.inst] = last.sources

\* C20: citations are reset at the start of each run of generate_response:
\* what get_last_sources returns was never recorded during an earlier run.
C20_ResetAtRunStart ==
    (last.op = "get_last_sources" /\ last.sources # <<>> /\ src_run[last.inst] >= 1) =>
        src_run[last.inst] = runs

\* C20, amended: the start of a run of generate_response leaves the stored
\* citations as they are; only reset_sources clears them.  What
\* get_last_sources returns was recorded no earlier than the run during which
\* reset_sources was last called: once reset_sources has been called during
\* the current run, nothing recorded during an earlier run is returned.
C20_ResetOnlyByResetSources ==
    /\ []((last.op = "get_last_sources" /\ last.sources # <<>>) =>
             (src_run[last.inst] >= reset_run /\ src_run[last.inst] <= runs))
    /\ [][runs' # runs => last_sources' = last_sources]_vars

C20_Witness ==
    /\ last.op = "get_last_sources"
    /\ last.sources # <<>>
    /\ runs = 2
    /\ reset_run = 2
    /\ src_run[last.inst] = 2
    /\ src_run["outline1"] = 1

\* A direct call of CourseSearchTool.execute was the latest operation.
SearchCalled == call.nth # "none" /\ call.tool = "search1"

\* A direct call of CourseOutlineTool.execute was the latest operation.
OutlineCalled == call.nth # "none" /\ call.tool = "outline1"

\* The members of a sequence in the order of their first appearance.
RECURSIVE Distinct(_)
Distinct(seq) ==
    IF Len(seq) = 0 THEN <<>>
    ELSE LET front == Distinct(SubSeq(seq, 1, Len(seq) - 1))
             x     == seq[Len(seq)]
         IN  IF \E i \in DOMAIN front : front[i] = x THEN front ELSE Append(front, x)

\* The text that names a (course, lesson) pair in a block header and in a
\* citation.
PairText(m) ==
    IF m.lesson_number = NoLesson THEN m.course_title
    ELSE m.course_title \o " - Lesson " \o ToString(m.lesson_number)

\* C21: for a result set with documents, CourseSearchTool.execute returns one
\* block per document in result order and records exactly one citation for
\* each distinct (course, lesson) pair, in the order of first appearance: two
\* documents of one course and lesson give two blocks and one citation.
C21_OneCitationPerPair ==
    (SearchCalled /\ call.search.kind = "return" /\ Len(call.search.results.documents) > 0) =>
        LET r     == call.search.results
            pairs == Distinct(r.metadata)
        IN  /\ last.ret = Join([i \in DOMAIN r.documents |->
                                   "[" \o PairText(r.metadata[i]) \o "]\n" \o r.documents[i]],
                               "\n\n")
            /\ Len(last_sources["search1"]) = Len(pairs)
            /\ \A i \in DOMAIN pairs : last_sources["search1"][i].text = PairText(pairs[i])

\* C22: on an empty result set without error, CourseSearchTool.execute returns
\* "No relevant content found", followed by the course filter exactly when
\* one was passed and by the lesson filter exactly when one was passed, lesson
\* number 0 included.
C22_NoContentNamesFilters ==
    (SearchCalled /\ call.search.kind = "return" /\ call.search.results = EmptyResults) =>
        last.ret = "No relevant content found"
                      \o (IF call.course_name # None
                            THEN " in course '" \o call.course_name \o "'"
                          ELSE "")
                      \o (IF call.lesson_number # NoLesson
                            THEN " in lesson " \o ToString(call.lesson_number)
                          ELSE "")
                      \o "."

\* C23: CourseSearchTool.execute never raises: when the store raises during
\* the search or during the link lookups of the formatting, execute returns
\* an error string that holds the kind and the message of the exception.
C23_SearchNeverRaises ==
    SearchCalled =>
        /\ last.exc = None
        /\ call.search.kind \in {"raise", "links_raise"} =>
              last.ret = "Search error: " \o call.search.exc \o ": " \o call.search.msg

\* C24: CourseSearchTool.execute sorts the result of the store in a fixed
\* order: a result with its error set gives that error text and no new
\* citations; else an empty result gives the no-content message; else the
\* formatted blocks are returned.
C24_ResultPrecedence ==
    (SearchCalled /\ call.search.kind # "raise") =>
        LET r == call.search.results
        IN  IF r.error # None
              THEN last.ret = r.error /\ last.path = "error" /\ last.sources = <<>>
            ELSE IF Len(r.documents) = 0
              THEN last.path = "empty" /\ last.sources = <<>>
            ELSE /\ last.path = "results"
                 /\ last.ret = Join([i \in DOMAIN r.documents |->
                                        "[" \o PairText(r.metadata[i]) \o "]\n"
                                            \o r.documents[i]],
                                    "\n\n")

\* C25: the URL of every citation CourseSearchTool records follows the
\* policy: for an entry with a lesson number, 0 included, the link of the
\* lesson when the store has one, else the link of the course; for an entry
\* without lesson number the link of the course; none only when no such link
\* exists.
C25_CitationUrlPolicy ==
    (SearchCalled /\ last.path = "results") =>
        LET r == call.search.results
            c == last_sources["search1"]
        IN  /\ Len(c) > 0
            /\ \A i \in DOMAIN c :
                  \E j \in DOMAIN r.metadata :
                     LET m      == r.metadata[j]
                         lesson == IF m.course_title = "MCP" /\ m.lesson_number = 0
                                     THEN "https://example.com/mcp/lesson0"
                                   ELSE None
                         course == IF m.course_title = "MCP"
                                     THEN "https://example.com/mcp"
                                   ELSE None
                     IN  /\ c[i].text = PairText(m)
                         /\ c[i].url = IF m.lesson_number # NoLesson /\ lesson # None
                                         THEN lesson
                                       ELSE course

C25_Witness ==
    /\ SearchCalled
    /\ last.path = "results"
    /\ Len(last_sources["search1"]) = 2
    /\ last_sources["search1"][1] =
          [text |-> "MCP - Lesson 0", url |-> "https://example.com/mcp/lesson0"]
    /\ last_sources["search1"][2] =
          [text |-> "MCP - Lesson 1", url |-> "https://example.com/mcp"]

\* C26: CourseOutlineTool.execute with a course name the store cannot resolve
\* returns a "No course found" string and leaves the tool with no stored
\* citations, whatever call came before.
C26_UnresolvedLeavesNoCitations ==
    (OutlineCalled /\ call.outline.kind = "unresolved") =>
        /\ last.ret = "No course found matching '" \o call.course_name \o "'"
        /\ last_sources["outline1"] = <<>>

\* C27: after a CourseOutlineTool.execute that resolved the course and found
\* it in the catalog, the tool holds the one citation {text: course title,
\* url: course link} when the course has a link and no citation when it has
\* none; it never holds more than one.
C27_OutlineCitation ==
    /\ Len(last_sources["outline1"]) <= 1
    /\ (OutlineCalled /\ call.outline.kind = "found") =>
          LET m == call.outline.metadata
          IN  /\ last.exc = None
              /\ IF m.course_link # None
                   THEN last_sources["outline1"] =
                           <<[text |-> m.title, url |-> m.course_link]>>
                 ELSE last_sources["outline1"] = <<>>

C27_Witness ==
    /\ OutlineCalled
    /\ call.nth = "later"
    /\ call.outline.kind = "found"
    /\ call.outline.metadata.course_link = None
    /\ last_sources["outline1"] = <<>>
    /\ src_run["outline1"] = 0
    /\ latest.inst = "outline1"

\* C28: CourseOutlineTool.execute never raises: an exception of the store
\* while the name is resolved, the catalog entry is read or its lesson list
\* is parsed gives a returned error string.
C28_OutlineNeverRaises ==
    OutlineCalled =>
        /\ last.exc = None
        /\ last.ret # None

\* The tools whose last_sources hold citations.
Citing == {t \in DOMAIN last_sources : last_sources[t] # <<>>}

\* Request r read citations that another request's tool execution recorded.
ReadForeign(r) == reqs[r].pc = "done" /\ reqs[r].got \notin {0, r}

\* C29: when requests are served one at a time, each with reset_sources
\* before its run and get_last_sources after it, the citations a request
\* reads were all recorded by tool executions of that same request: while a
\* request is under way every citation the registry holds is its own, what
\* it reads is its own or nothing, and no citation of its own was wiped out
\* before it read.
C29_ReadsOwnCitations ==
    \A r \in Requests :
        /\ reqs[r].pc = "running" => \A t \in Citing : src_run[t] = r
        /\ ~ReadForeign(r)
        /\ ~reqs[r].lost

\* Two requests in a row each recorded citations and read them.
C29_Witness ==
    /\ reqs[1].pc = "done" /\ reqs[1].got = 1
    /\ reqs[2].pc = "done" /\ reqs[2].got = 2

\* C30: the citations kept on the tools are safe only under one request at a
\* time: a request reads citations another request recorded, or has its own
\* citations cleared by another request's reset, only when a step of another
\* request fell between its reset and its read; and with two requests that
\* share the registry and interleave, such a state is reached.
C30_UnsafeOnlyWhenInterleaved ==
    \A r \in Requests : (ReadForeign(r) \/ reqs[r].lost) => reqs[r].overlapped

\* The second request reset the citations the first had recorded and recorded
\* its own; the first then read the second's.
C30_Witness ==
    /\ reqs[1].pc = "done"
    /\ reqs[1].got = 2
    /\ reqs[1].lost

\* Round k had an invocation that succeeded: execute_tool returned.
SomeSucceeded(k) == \E i \in ExecsOf(k) : execs[i].outcome.kind = "return"

\* C31: after a round in which at least one invocation succeeded (a mixed
\* round included) and with the round counter below 2, the next completion
\* request is made inside the loop with the catalog still attached; the loop
\* is left after a round without that re-query only when the counter has
\* reached 2 or every invocation of the round failed.
C31_RequeryAfterSuccess ==
    \A k \in 1..tool_rounds_used :
        RoundOver(k) =>
            /\ (SomeSucceeded(k) /\ k < 2) =>
                  /\ Len(calls) = k => pc = "call"
                  /\ Len(calls) > k =>
                        /\ calls[k + 1].site = "loop"
                        /\ calls[k + 1].tools = tools
                        /\ calls[k + 1].tool_choice = tools
            /\ ((Len(calls) = k /\ pc # "call")
                \/ (Len(calls) > k /\ calls[k + 1].site = "final")) =>
                  (k = 2 \/ ~SomeSucceeded(k))

\* A mixed round 1 (one invocation raised, the other returned) was followed
\* by a re-query with the catalog.
C31_Witness ==
    /\ tools /\ tool_manager
    /\ Len(execs) >= 2
    /\ execs[1].round = 1 /\ execs[1].outcome.kind = "raise"
    /\ execs[2].round = 1 /\ execs[2].outcome.kind = "return"
    /\ Len(calls) >= 2
    /\ calls[2].site = "loop"
    /\ calls[2].tools

\* The ids of the tool_use segments of a content list, in their order.
RECURSIVE InvocationIds(_)
InvocationIds(c) ==
    IF c = <<>> THEN <<>>
    ELSE IF Head(c).type = "tool_use" THEN <<Head(c).id>> \o InvocationIds(Tail(c))
    ELSE InvocationIds(Tail(c))

\* The response that requested round k: the k-th completion response.
RoundResponse(k) == calls[k].response

\* The tool_use_id fields of a list of tool results, in their order.
ResultIds(trs) == [n \in DOMAIN trs |-> trs[n].tool_use_id]

\* C33: the results of every executed round are appended as exactly one
\* user message that holds exactly one tool result per tool-invocation
\* segment of the round's response, in the order of the invocations, each
\* with the id of its own invocation: none is left without a result, and no
\* result carries an id of another round.
C33_OneResultPerInvocation ==
    \A k \in 1..tool_rounds_used :
        RoundOver(k) =>
            /\ messages[1 + 2 * k].role = "user"
            /\ messages[2 * k].role = "assistant"
            /\ ResultIds(ResultsOf(k)) = InvocationIds(RoundResponse(k).content)
            /\ \A n \in DOMAIN ResultsOf(k) : ResultsOf(k)[n].type = "tool_result"
            /\ \A j \in (1..tool_rounds_used) \ {k} :
                  \A n \in DOMAIN ResultsOf(k) :
                     \A m \in DOMAIN RoundResponse(j).content :
                        RoundResponse(j).content[m].id # ResultsOf(k)[n].tool_use_id
            /\ Len(messages) = 1 + 2 * tool_rounds_used
                                 - (IF pc = "exec" THEN 1 ELSE 0)

\* Two rounds are over, each with two invocations and two results.
C33_Witness ==
    /\ tool_rounds_used = 2
    /\ RoundOver(2)
    /\ Len(ResultsOf(1)) = 2
    /\ Len(ResultsOf(2)) = 2
    /\ ResultsOf(1)[2].tool_use_id = "toolu_1_2"
    /\ ResultsOf(2)[1].tool_use_id = "toolu_2_1"

\* The ids of the invocations executed in round k, in the order of execution.
RECURSIVE ExecutedIds(_, _)
ExecutedIds(es, k) ==
    IF es = <<>> THEN <<>>
    ELSE IF Head(es).round = k THEN <<Head(es).id>> \o ExecutedIds(Tail(es), k)
    ELSE ExecutedIds(Tail(es), k)

\* The number of tool-invocation segments of the responses of rounds 1..k.
RECURSIVE InvocationsUpTo(_)
InvocationsUpTo(k) ==
    IF k = 0 THEN 0
    ELSE Len(InvocationIds(RoundResponse(k).content)) + InvocationsUpTo(k - 1)

\* C34: every invocation of a round is executed, one after the other in the
\* order of the response and exactly once; an invocation that raises does
\* not keep the later invocations of its round from being executed; so when
\* the rounds are over the run has made as many execute_tool calls as the
\* responses of its rounds hold tool-invocation segments.
C34_EveryInvocationExecutedOnce ==
    /\ \A k \in 1..tool_rounds_used :
          /\ RoundOver(k) =>
                ExecutedIds(execs, k) = InvocationIds(RoundResponse(k).content)
          /\ ~RoundOver(k) =>
                \E n \in 0..Len(InvocationIds(RoundResponse(k).content)) :
                   ExecutedIds(execs, k) =
                      SubSeq(InvocationIds(RoundResponse(k).content), 1, n)
    /\ \A i, j \in DOMAIN execs : i < j => execs[i].round <= execs[j].round
    /\ pc \in {"call", "post", "done"} =>
          Len(execs) = InvocationsUpTo(tool_rounds_used)

\* Both invocations of round 1 were executed although the first raised.
C34_Witness ==
    /\ pc = "done"
    /\ Len(execs) = 3
    /\ execs[1].round = 1 /\ execs[1].outcome.kind = "raise"
    /\ execs[2].round = 1 /\ execs[2].id = "toolu_1_2"
    /\ execs[3].round = 2

\* Sequence a is an initial part of sequence b.
IsPrefix(a, b) == Len(a) <= Len(b) /\ SubSeq(b, 1, Len(a)) = a

\* The role of the message at position n of an alternating history.
RoleAt(n) == IF n % 2 = 1 THEN "user" ELSE "assistant"

\* The message history of the run under way is well formed: the query, then
\* for each round the assistant message with the response's content and the
\* user message with the round's results.
Alternating ==
    pc # "idle" =>
        /\ messages[1] \in {[role |-> "user", content |-> q] : q \in Queries}
        /\ \A n \in DOMAIN messages : messages[n].role = RoleAt(n)
        /\ Len(messages) = 1 + 2 * tool_rounds_used - (IF pc = "exec" THEN 1 ELSE 0)
        /\ \A k \in 1..tool_rounds_used :
              /\ messages[2 * k].content = RoundResponse(k).content
              /\ RoundOver(k) =>
                    \A n \in DOMAIN ResultsOf(k) :
                       ResultsOf(k)[n].type = "tool_result"
        /\ \A c \in DOMAIN calls :
              /\ IsPrefix(calls[c].messages, messages)
              /\ Len(calls[c].messages) =
                    1 + 2 * (IF calls[c].site = "loop" THEN c - 1
                             ELSE tool_rounds_used)

\* C35: the message history of a run is append-only and alternates: it
\* starts with the one user query; every round appends the assistant message
\* with the response's raw content, before a tool of the round is executed,
\* and then the user message with the results; after k rounds it has 1 + 2k
\* messages, and every later completion request carries all of them.
C35_AppendOnlyAlternating ==
    /\ []Alternating
    /\ [][pc \notin {"idle", "done", "raised"} => IsPrefix(messages, messages')]_vars
    /\ [][(pc = "exec" /\ execs' # execs) =>
             /\ messages' = messages
             /\ messages[Len(messages)] =
                   [role |-> "assistant", content |-> response.content]]_vars

\* Two rounds are over: five messages, all of them in the third request.
C35_Witness ==
    /\ pc = "done"
    /\ Len(messages) = 5
    /\ Len(calls) = 3
    /\ calls[3].messages = messages
    /\ Len(calls[2].messages) = 3
    /\ Len(execs) >= 2

\* Completion call c, made inside the loop with a registry, returned a
\* response that requests tool use and holds no tool-invocation segment.
EmptyRound(c) ==
    /\ tool_manager
    /\ RequestsTools(c)
    /\ calls[c].site = "loop"
    /\ ToolUses(calls[c].response.content) = {}

\* C37: with a registry, a response with stop reason tool_use that holds no
\* tool-invocation segment still makes a round: the counter is incremented,
\* no tool is executed, an empty results message is appended, the loop is
\* left at once as after a round whose invocations all failed, and the next
\* completion call is the forced synthesis without the catalog.
C37_RoundWithoutInvocations ==
    \A c \in DOMAIN calls :
        EmptyRound(c) =>
            /\ tool_rounds_used = c
            /\ ExecsOf(c) = {}
            /\ Len(messages) >= 2 * c
            /\ messages[2 * c] =
                  [role |-> "assistant", content |-> calls[c].response.content]
            /\ pc = "exec" => (Len(messages) = 2 * c /\ blk > Len(response.content))
            /\ pc # "exec" =>
                  /\ Len(messages) = 1 + 2 * c
                  /\ messages[1 + 2 * c] = [role |-> "user", content |-> <<>>]
                  /\ pc \in {"post", "done", "raised"}
                  /\ Len(calls) <= c + 1
                  /\ pc = "post" => Len(calls) = c
                  /\ pc \in {"done", "raised"} =>
                        /\ Len(calls) = c + 1
                        /\ calls[c + 1].site = "final"
                        /\ ~calls[c + 1].tools
                        /\ ~calls[c + 1].tool_choice
                        /\ calls[c + 1].messages = messages

\* The first response requested tool use with a text segment only; the
\* forced synthesis followed and gave the answer.
C37_Witness ==
    /\ pc = "done"
    /\ tools
    /\ EmptyRound(1)
    /\ Len(calls[1].response.content) = 1
    /\ Len(calls) = 2
    /\ HasText(calls[2].response)

\* C38: a run with a registry that ends without a transport failure has made
\* one completion call more than it has executed tool rounds, whatever the
\* responses and the tool outcomes: 1 call with no round, 2 with one round,
\* 3 with two.
C38_CallsAreRoundsPlusOne ==
    (tool_manager /\ pc = "done") =>
        /\ Len(calls) = tool_rounds_used + 1
        /\ \A c \in DOMAIN calls : calls[c].error = None
        /\ tool_rounds_used \in 0..2

\* A run of two rounds, the second with failed invocations only, ended
\* after three calls.
C38_Witness ==
    /\ tool_manager
    /\ pc = "done"
    /\ tool_rounds_used = 2
    /\ Len(calls) = 3
    /\ ExecsOf(2) # {}
    /\ \A i \in ExecsOf(2) : execs[i].outcome.kind = "raise"

\* The completion calls of the run made without the catalog.
WithoutCatalog == {c \in DOMAIN calls : ~calls[c].tools}

\* C39: when a catalog is supplied, every completion request of a run
\* carries it with tool choice auto, except the forced synthesis; a request
\* without the catalog is made at most once in a run, as the last completion
\* call only, and only after a response with stop reason tool_use.
C39_CatalogOnEveryLoopCall ==
    tools =>
        /\ \A c \in DOMAIN calls :
              /\ calls[c].site = "loop" => (calls[c].tools /\ calls[c].tool_choice)
              /\ calls[c].site = "final" => (~calls[c].tools /\ ~calls[c].tool_choice)
        /\ Cardinality(WithoutCatalog) <= 1
        /\ \A c \in WithoutCatalog :
              /\ c = Len(calls)
              /\ c > 1
              /\ calls[c].site = "final"
              /\ calls[c - 1].error = None
              /\ calls[c - 1].response.stop_reason = "tool_use"
              /\ pc \in {"done", "raised"}

\* Three calls with a catalog supplied: two with it, the last without.
C39_Witness ==
    /\ tools
    /\ pc = "done"
    /\ Len(calls) = 3
    /\ calls[1].tools /\ calls[1].tool_choice
    /\ calls[2].tools /\ calls[2].tool_choice
    /\ WithoutCatalog = {3}

\* The lookups of function fn among the link lookups of the latest call.
LookupsOf(fn) == {i \in DOMAIN call.lookups : call.lookups[i].fn = fn}

\* The distinct (course, lesson) pairs of a metadata list.
Pairs(metadata) == {metadata[i] : i \in DOMAIN metadata}

\* C36: while it formats one result set, CourseSearchTool looks links up once
\* for each distinct (course, lesson) pair, not once for each document: for
\* u distinct pairs it makes at most u lesson-link lookups and at most u
\* course-link lookups, none of them twice for one pair, and documents that
\* share a pair get the same URL, the one the lookups for the pair gave.
C36_LookupsPerUniquePair ==
    (SearchCalled /\ Len(call.search.results.documents) > 0
                  /\ call.search.kind \in {"return", "links_raise"}) =>
        LET metadata == call.search.results.metadata
            u        == Cardinality(Pairs(metadata))
        IN  /\ Cardinality(LookupsOf("get_lesson_link")) <= u
            /\ Cardinality(LookupsOf("get_course_link")) <= u
            /\ \A i, j \in DOMAIN call.lookups :
                  (/\ call.lookups[i].fn = call.lookups[j].fn
                   /\ call.lookups[i].course_title = call.lookups[j].course_title
                   /\ call.lookups[i].lesson_number = call.lookups[j].lesson_number)
                     => i = j
            /\ last.path = "results" =>
                  /\ call.lookups # <<>>
                  /\ Len(last.sources) = Len(metadata)
                  /\ \A i, j \in DOMAIN metadata :
                        metadata[i] = metadata[j] =>
                            last.sources[i].url = last.sources[j].url
                  /\ \A i \in DOMAIN metadata :
                        \/ \E l \in DOMAIN call.lookups :
                              /\ call.lookups[l].course_title = metadata[i].course_title
                              /\ call.lookups[l].lesson_number = metadata[i].lesson_number
                              /\ Truthy(call.lookups[l].url)
                              /\ call.lookups[l].url = last.sources[i].url
                        \/ /\ last.sources[i].url = None
                           /\ \A l \in DOMAIN call.lookups :
                                 (/\ call.lookups[l].course_title = metadata[i].course_title
                                  /\ call.lookups[l].lesson_number = metadata[i].lesson_number)
                                    => ~Truthy(call.lookups[l].url)

\* Two documents of one lesson without a lesson link: one lesson-link lookup,
\* one course-link lookup, and the course link in both citations.
C36_Witness ==
    /\ SearchCalled
    /\ last.path = "results"
    /\ Len(call.search.results.documents) = 2
    /\ call.search.results.metadata[1] = [course_title |-> "MCP", lesson_number |-> 1]
    /\ call.search.results.metadata[2] = [course_title |-> "MCP", lesson_number |-> 1]
    /\ Len(call.lookups) = 2
    /\ last.sources[1].url = "https://example.com/mcp"
    /\ last.sources[2].url = "https://example.com/mcp"

\* Round k requested searches only, and at least one.
SearchRound(k) ==
    /\ ExecsOf(k) # {}
    /\ \A i \in ExecsOf(k) : execs[i].name = "search_course_content"

\* C32: with the real search tool registered and a store that raises on
\* every search, a run whose first response requests a search takes round 1
\* for a round whose invocations all failed: it makes exactly 2 completion
\* calls, the 2nd being the forced synthesis without the catalog, and no
\* re-query with the catalog.
C32_StoreDownTwoCalls ==
    (RequestsTools(1) /\ RoundOver(1) /\ SearchRound(1)) =>
        /\ Len(calls) <= 2
        /\ Len(calls) = 2 => (calls[2].site = "final" /\ ~calls[2].tools)
        /\ pc = "done" => Len(calls) = 2

\* The first message of the run under way: the query of that run.
OwnQuery == [role |-> "user", content |-> QueryOf(runs)]

\* The run under way holds nothing of a run before it: its history is its
\* own query followed by the messages of its own rounds, its counter counts
\* its own rounds, and each of its requests carries that history only.
OwnHistoryOnly ==
    pc # "idle" =>
        /\ messages[1] = OwnQuery
        /\ Len(messages) = 1 + 2 * tool_rounds_used - (IF pc = "exec" THEN 1 ELSE 0)
        /\ \A n \in DOMAIN messages : messages[n].role = RoleAt(n)
        /\ tool_rounds_used = Cardinality({c \in DOMAIN calls :
                                              /\ calls[c].site = "loop"
                                              /\ calls[c].error = None
                                              /\ calls[c].response.stop_reason = "tool_use"})
        /\ \A k \in 1..tool_rounds_used :
              /\ messages[2 * k] =
                    [role |-> "assistant", content |-> RoundResponse(k).content]
              /\ RoundOver(k) =>
                    /\ \A n \in DOMAIN ResultsOf(k) :
                          ResultsOf(k)[n].type = "tool_result"
                    /\ ResultIds(ResultsOf(k)) = ExecutedIds(execs, k)
        /\ \A c \in DOMAIN calls :
              /\ calls[c].messages[1] = OwnQuery
              /\ IsPrefix(calls[c].messages, messages)
              /\ Len(calls[c].messages) =
                    1 + 2 * (IF calls[c].site = "loop" THEN c - 1
                             ELSE tool_rounds_used)
        /\ calls # <<>> => calls[1].messages = <<OwnQuery>>
        /\ Len(calls) <= MAX_TOOL_ROUNDS + 1

\* C40: the runs of generate_response on one AIGenerator are independent:
\* every run starts from a message list that holds its own query only and
\* from a round counter of 0, so that no message, tool result or round count
\* of an earlier run is in a later run's requests, and no run changes
\* base_params.
C40_RunsAreIndependent ==
    /\ []OwnHistoryOnly
    /\ [](base_params = BaseParams)
    /\ [][runs' # runs =>
             /\ messages' = <<[role |-> "user", content |-> QueryOf(runs')]>>
             /\ tool_rounds_used' = 0
             /\ calls' = <<>>]_vars
    /\ [][base_params' = base_params]_vars

\* A run of two rounds and five messages was followed by a run that ended
\* after one call on its own query.
C40_Witness ==
    /\ runs = 2
    /\ earlier = [tool_rounds_used |-> 2, messages |-> 5]
    /\ pc = "done"
    /\ Len(calls) = 1
    /\ calls[1].messages = <<[role |-> "user", content |-> "query 2"]>>
    /\ tool_rounds_used = 0

====
